---- MODULE Spec2Model ----
(***************************************************************************)
(* Authorization engine and request gate of the N4PCC collaboration        *)
(* platform: the relational store (users, workspaces, workspace_members,   *)
(* projects, project_members, tasks, task_assignments, notifications), the *)
(* GraphQL context function, the REST authenticate middleware, the         *)
(* services/authorization checks and the GraphQL resolvers that use them.  *)
(*                                                                         *)
(* Every resolver is a pure operator from (store, context, arguments) to   *)
(* [result, db, pub]: the error message thrown ("ok" when it returns), the *)
(* store after the call and the pub/sub messages it published.  The        *)
(* actions apply a resolver to the current store and commit its outcome.   *)
(* Columns no modelled decision reads (names, descriptions, timestamps,    *)
(* created_by) are left out of the rows.                                   *)
(***************************************************************************)
EXTENDS Integers, FiniteSets, Sequences, TLC

\* ---------------------------------------------------------------- bounds
\* Size of the id pools the store draws generated ids from.
MaxWorkspaces == 1
MaxProjects == 1
MaxTasks == 1
\* Cap on the rows of notifications and on the messages kept per run.
MaxNotifications == 1
MaxPublished == 2
\* Longest assignedToIds list a request carries.
MaxAssignees == 1
\* Device rows the user_devices table holds.
MaxDevices == 2
\* Latest reading of the store's clock.
MaxClock == 2
\* Listeners attached to the PubSub at one time.
MaxSubscribers == 2

\* The registered users: the seeded admin and two ordinary accounts.
UserIds == {"u1", "u2", "u3"}
NoUser == "none"

GlobalStatuses == {"ACTIVE", "BANNED", "ADMIN"}
WorkspaceRoles == {"Owner", "Member", "Viewer"}
ProjectRoles == {"Project Lead", "Contributor", "Project Viewer"}
TaskStatuses == {"TODO", "IN_PROGRESS", "DONE"}

WorkspaceIds == {<<"w", i>> : i \in 1..MaxWorkspaces}
ProjectIds == {<<"p", i>> : i \in 1..MaxProjects}
TaskIds == {<<"t", i>> : i \in 1..MaxTasks}
DeviceIds == {<<"d", i>> : i \in 1..MaxDevices}

\* ----------------------------------------------------------------- state
VARIABLES
    users,              \* users: id -> global_status
    workspaces,         \* set of workspace ids
    workspace_members,  \* rows [workspace_id, user_id, role]
    projects,           \* rows [id, workspace_id]
    project_members,    \* rows [project_id, user_id, role]
    tasks,              \* rows [id, project_id, status]
    task_assignments,   \* rows [task_id, user_id]
    notifications,      \* number of rows per <<recipient_id, related_entity_id>>
    published,          \* sequence of pub/sub messages [channel, task, status]
    subscribers,        \* listeners of the PubSub: [user_id, channel, since, received]
    user_devices,       \* rows [user_id, device_id, is_revoked]
    issued,             \* tokens signed by the server and not yet expired
    config,             \* config/index.ts as read at start: [secret, refreshSecret, apiKey]
    pending,            \* the request suspended between two of its statements
    proc,               \* the node process: [phase, pool, apollo, timer, signal, exit]
    resp                \* the response being sent: [op, caller, entity, target, value, result]

vars == <<users, workspaces, workspace_members, projects, project_members,
          tasks, task_assignments, notifications, published, subscribers,
          user_devices, issued, config, pending, proc, resp>>

\* The store as one value, as the resolvers see it through query().
DB == [users |-> users, workspaces |-> workspaces,
       workspace_members |-> workspace_members, projects |-> projects,
       project_members |-> project_members, tasks |-> tasks,
       task_assignments |-> task_assignments, notifications |-> notifications,
       user_devices |-> user_devices]

\* ------------------------------------------------------------ credentials
\* config.jwt and config.gemini: each value is the environment's when the
\* variable is set and the literal default of config/index.ts otherwise.
DefaultSecret == "change-this-in-production"
DefaultConfig ==
    [secret |-> DefaultSecret, refreshSecret |-> DefaultSecret, apiKey |-> ""]
Configs ==
    [secret : {DefaultSecret, "env.JWT_SECRET"},
     refreshSecret : {DefaultSecret, "env.JWT_REFRESH_SECRET"},
     apiKey : {"", "env.GEMINI_API_KEY"}]

JwtSecret == config.secret
RefreshSecret == config.refreshSecret

\* A token is its payload, the secret that signed it and the lifetime it was
\* signed with.
NoToken == [userId |-> NoUser, globalStatus |-> "ACTIVE", secret |-> "no token",
            expiresIn |-> "15m"]
ForgedToken == [userId |-> "u1", globalStatus |-> "ADMIN", secret |-> "forged",
                expiresIn |-> "15m"]

signAccess(userId, globalStatus) ==
    [userId |-> userId, globalStatus |-> globalStatus, secret |-> JwtSecret,
     expiresIn |-> "15m"]

\* Variant: jwt.verify with ignoreExpiration.
verifyAccessToken_ignoreExpiration(token) == token.secret = JwtSecret

\* jwt.verify(token, config.jwt.secret): the signature matches and the token
\* has not expired (expired tokens leave `issued`).
verifyAccessToken(token) == token.secret = JwtSecret /\ token \in issued

getUserById(db, id) ==
    IF id \in DOMAIN db.users THEN [found |-> TRUE, global_status |-> db.users[id]]
    ELSE [found |-> FALSE, global_status |-> "undefined"]

\* GraphQL context: the token's userId when it verifies, no identity otherwise.
\* The user row is loaded but its global_status is not looked at.
getContext(db, token) ==
    IF verifyAccessToken(token)
    THEN [userId |-> token.userId, user |-> getUserById(db, token.userId)]
    ELSE [userId |-> NoUser, user |-> getUserById(db, NoUser)]

\* REST authenticate middleware: the status code it answers, 200 when it
\* calls next().
authenticate(db, token) ==
    IF token = NoToken THEN 401
    ELSE IF ~verifyAccessToken(token) THEN 401
    ELSE IF ~getUserById(db, token.userId).found THEN 401
    ELSE IF getUserById(db, token.userId).global_status = "BANNED" THEN 403
    ELSE 200

\* ------------------------------------------------------------ utils/auth
signRefresh(userId, globalStatus) ==
    [userId |-> userId, globalStatus |-> globalStatus, secret |-> RefreshSecret,
     expiresIn |-> "7d"]

\* jwt.verify(token, config.jwt.refreshSecret).
verifyRefreshToken(token) == token.secret = RefreshSecret /\ token \in issued

\* bcrypt: a password matches the hash of that password and no other.
hashPassword(password) == <<"bcrypt", password>>
comparePassword(password, hash) == hashPassword(password) = hash

\* Emails are unique: a user's email is written as the user's id.  Every
\* registered user u has the password <<"pw", u>>.
getUserByEmail(db, email) ==
    IF email \in DOMAIN db.users
    THEN [found |-> TRUE, id |-> email, global_status |-> db.users[email],
          password_hash |-> hashPassword(<<"pw", email>>)]
    ELSE [found |-> FALSE, id |-> NoUser, global_status |-> "undefined",
          password_hash |-> hashPassword(<<"pw", "undefined">>)]

\* revoked_at IS NULL.
NULL == -1

\* A user_devices row as INSERT writes it: is_revoked and revoked_at take
\* their column defaults.
DeviceRow(userId, deviceId, ipAddress, userAgent, now) ==
    [user_id |-> userId, device_id |-> deviceId, ip_address |-> ipAddress,
     user_agent |-> userAgent, login_time |-> now, is_revoked |-> FALSE,
     revoked_at |-> NULL]

\* SELECT ... FROM user_devices WHERE user_id = $1 AND device_id = $2.
DeviceRows(db, userId, deviceId) ==
    {d \in db.user_devices : d.user_id = userId /\ d.device_id = deviceId}

\* Variant: a plain INSERT, with no ON CONFLICT clause.
saveDevice_append(db, userId, deviceId, ipAddress, userAgent, now) ==
    [db EXCEPT !.user_devices =
        @ \cup {DeviceRow(userId, deviceId, ipAddress, userAgent, now)}]

\* INSERT ... ON CONFLICT (user_id, device_id) DO UPDATE SET login_time =
\* NOW(), is_revoked = FALSE, revoked_at = NULL, ip_address, user_agent.
\* now is the value NOW() returns.
saveDevice(db, userId, deviceId, ipAddress, userAgent, now) ==
    [db EXCEPT !.user_devices =
        (@ \ DeviceRows(db, userId, deviceId))
        \cup {DeviceRow(userId, deviceId, ipAddress, userAgent, now)}]

\* Variant: the WHERE clause names the user only.
revokeDevice_everyDevice(db, userId, deviceId, now) ==
    [db EXCEPT !.user_devices =
        {IF d.user_id = userId
         THEN [d EXCEPT !.is_revoked = TRUE, !.revoked_at = now]
         ELSE d : d \in @}]

\* Variant: a pair with no row gets a revoked row.
revokeDevice_upsert(db, userId, deviceId, now) ==
    IF DeviceRows(db, userId, deviceId) = {}
    THEN [db EXCEPT !.user_devices =
            @ \cup {[DeviceRow(userId, deviceId, "", "", now)
                        EXCEPT !.is_revoked = TRUE, !.revoked_at = now]}]
    ELSE [db EXCEPT !.user_devices =
            {IF d.user_id = userId /\ d.device_id = deviceId
             THEN [d EXCEPT !.is_revoked = TRUE, !.revoked_at = now]
             ELSE d : d \in @}]

\* UPDATE user_devices SET is_revoked = TRUE, revoked_at = NOW()
\* WHERE user_id = $1 AND device_id = $2.
revokeDevice(db, userId, deviceId, now) ==
    [db EXCEPT !.user_devices =
        {IF d.user_id = userId /\ d.device_id = deviceId
         THEN [d EXCEPT !.is_revoked = TRUE, !.revoked_at = now]
         ELSE d : d \in @}]

\* result.rows[0]?.is_revoked || true: undefined, false and true all give
\* true.
isDeviceRevoked(db, userId, deviceId) ==
    LET rows == DeviceRows(db, userId, deviceId) IN
    (rows # {} /\ (CHOOSE d \in rows : TRUE).is_revoked) \/ TRUE

\* ------------------------------------------------------------ routes/auth
\* A REST answer: the status code and the body's error (or message).
InvalidCredentials == <<"401", "Invalid credentials">>
AccountBanned == <<"403", "Account is banned">>
LoggedIn == <<"200", "">>
NoBearer == <<"401", "Unauthorized: No token provided">>
InvalidBearer == <<"401", "Unauthorized: Invalid token">>
BannedBearer == <<"403", "Access denied: Account is banned">>
LoggedOut == <<"200", "Logged out successfully">>
NoRefreshToken == <<"401", "No refresh token provided">>
InvalidToken == <<"401", "Invalid token">>
InvalidRefreshToken == <<"401", "Invalid refresh token">>
Refreshed == <<"200", "">>

\* The x-device-id header when the client sends none.
UnknownDevice == <<"unknown", 0>>

Refuse(db, answer) == [result |-> answer, db |-> db, tokens |-> {}]

\* Variant: the password is compared only after the device has been saved.
login_saveFirst(db, email, password, deviceId, ip, userAgent, now) ==
    LET user == getUserByEmail(db, email) IN
    IF ~user.found THEN Refuse(db, InvalidCredentials)
    ELSE IF user.global_status = "BANNED" THEN Refuse(db, AccountBanned)
    ELSE IF ~comparePassword(password, user.password_hash)
         THEN Refuse(saveDevice(db, user.id, deviceId, ip, userAgent, now), InvalidCredentials)
    ELSE [result |-> LoggedIn, db |-> saveDevice(db, user.id, deviceId, ip, userAgent, now),
          tokens |-> {signAccess(user.id, user.global_status),
                      signRefresh(user.id, user.global_status)}]

\* POST /auth/login.  deviceId is the value generateDeviceId() returns, ip
\* and userAgent are req.ip and the user-agent header; the response carries
\* the two tokens and the user, not the deviceId.
login(db, email, password, deviceId, ip, userAgent, now) ==
    LET user == getUserByEmail(db, email) IN
    IF ~user.found THEN Refuse(db, InvalidCredentials)
    ELSE IF user.global_status = "BANNED" THEN Refuse(db, AccountBanned)
    ELSE IF ~comparePassword(password, user.password_hash)
         THEN Refuse(db, InvalidCredentials)
    ELSE [result |-> LoggedIn, db |-> saveDevice(db, user.id, deviceId, ip, userAgent, now),
          tokens |-> {signAccess(user.id, user.global_status),
                      signRefresh(user.id, user.global_status)}]

\* POST /auth/logout behind authenticate.  refreshToken: the cookie or the
\* x-refresh-token header is present; deviceHeader: the x-device-id header,
\* UnknownDevice when absent.
logout(db, token, refreshToken, deviceHeader, now) ==
    LET status == authenticate(db, token) IN
    IF status = 401
    THEN Refuse(db, IF token = NoToken THEN NoBearer ELSE InvalidBearer)
    ELSE IF status = 403 THEN Refuse(db, BannedBearer)
    ELSE IF refreshToken
         THEN [result |-> LoggedOut,
               db |-> revokeDevice(db, token.userId, deviceHeader, now),
               tokens |-> {}]
    ELSE [result |-> LoggedOut, db |-> db, tokens |-> {}]

\* Variant: the user's global_status is not looked at.
refresh_anyStatus(db, refreshToken) ==
    IF refreshToken = NoToken THEN Refuse(db, NoRefreshToken)
    ELSE IF ~verifyRefreshToken(refreshToken) THEN Refuse(db, InvalidRefreshToken)
    ELSE LET user == getUserByEmail(db, refreshToken.userId) IN
         IF ~user.found
         THEN Refuse(db, InvalidToken)
         ELSE [result |-> Refreshed, db |-> db,
               tokens |-> {signAccess(user.id, user.global_status),
                           signRefresh(user.id, user.global_status)}]

\* POST /auth/refresh.  The user is looked up by the payload's email.
refresh(db, refreshToken) ==
    IF refreshToken = NoToken THEN Refuse(db, NoRefreshToken)
    ELSE IF ~verifyRefreshToken(refreshToken) THEN Refuse(db, InvalidRefreshToken)
    ELSE LET user == getUserByEmail(db, refreshToken.userId) IN
         IF ~user.found \/ user.global_status = "BANNED"
         THEN Refuse(db, InvalidToken)
         ELSE [result |-> Refreshed, db |-> db,
               tokens |-> {signAccess(user.id, user.global_status),
                           signRefresh(user.id, user.global_status)}]

\* ---------------------------------------------------- services/authorization
WorkspaceHierarchy == [Owner |-> 3, Member |-> 2, Viewer |-> 1]
ProjectHierarchy ==
    [r \in ProjectRoles |->
        IF r = "Project Lead" THEN 3 ELSE IF r = "Contributor" THEN 2 ELSE 1]

WorkspaceRows(db, userId, workspaceId) ==
    {m \in db.workspace_members : m.workspace_id = workspaceId /\ m.user_id = userId}

ProjectRows(db, userId, projectId) ==
    {m \in db.project_members : m.project_id = projectId /\ m.user_id = userId}

\* Variant: the comparison of levels is strict.
checkWorkspaceAccess_strict(db, userId, workspaceId, minimumRole) ==
    LET rows == WorkspaceRows(db, userId, workspaceId) IN
    IF rows = {} THEN [hasAccess |-> FALSE, role |-> "undefined"]
    ELSE LET role == (CHOOSE m \in rows : TRUE).role IN
         [hasAccess |-> WorkspaceHierarchy[role] > WorkspaceHierarchy[minimumRole],
          role |-> role]

\* Variant: an ADMIN without a membership row is let through.
checkWorkspaceAccess_adminBypass(db, userId, workspaceId, minimumRole) ==
    LET rows == WorkspaceRows(db, userId, workspaceId) IN
    IF rows = {}
    THEN [hasAccess |-> getUserById(db, userId).global_status = "ADMIN",
          role |-> "undefined"]
    ELSE LET role == (CHOOSE m \in rows : TRUE).role IN
         [hasAccess |-> WorkspaceHierarchy[role] >= WorkspaceHierarchy[minimumRole],
          role |-> role]

checkWorkspaceAccess(db, userId, workspaceId, minimumRole) ==
    LET rows == WorkspaceRows(db, userId, workspaceId) IN
    IF rows = {} THEN [hasAccess |-> FALSE, role |-> "undefined"]
    ELSE LET role == (CHOOSE m \in rows : TRUE).role IN
         [hasAccess |-> WorkspaceHierarchy[role] >= WorkspaceHierarchy[minimumRole],
          role |-> role]

\* Variant: without a project row, the Owner of the project's workspace
\* counts as Project Lead.
checkProjectAccess_ownerFallback(db, userId, projectId, minimumRole) ==
    LET rows == ProjectRows(db, userId, projectId) IN
    IF rows = {}
    THEN IF \E p \in db.projects, m \in db.workspace_members :
                /\ p.id = projectId /\ m.workspace_id = p.workspace_id
                /\ m.user_id = userId /\ m.role = "Owner"
         THEN [hasAccess |-> TRUE, role |-> "Project Lead"]
         ELSE [hasAccess |-> FALSE, role |-> "undefined"]
    ELSE LET role == (CHOOSE m \in rows : TRUE).role IN
         [hasAccess |-> ProjectHierarchy[role] >= ProjectHierarchy[minimumRole],
          role |-> role]

checkProjectAccess(db, userId, projectId, minimumRole) ==
    LET rows == ProjectRows(db, userId, projectId) IN
    IF rows = {} THEN [hasAccess |-> FALSE, role |-> "undefined"]
    ELSE LET role == (CHOOSE m \in rows : TRUE).role IN
         [hasAccess |-> ProjectHierarchy[role] >= ProjectHierarchy[minimumRole],
          role |-> role]

\* Variant: any membership row counts as ownership.
checkWorkspaceOwnership_anyMember(db, userId, workspaceId) ==
    WorkspaceRows(db, userId, workspaceId) # {}

checkWorkspaceOwnership(db, userId, workspaceId) ==
    {m \in WorkspaceRows(db, userId, workspaceId) : m.role = "Owner"} # {}

checkProjectLeadAccess(db, userId, projectId) ==
    {m \in ProjectRows(db, userId, projectId) : m.role = "Project Lead"} # {}

InsufficientPermissions(minimumRole) == <<"Insufficient permissions", minimumRole>>

\* "ok" when the check passes, the error thrown otherwise.
requireWorkspaceAccess(db, userId, workspaceId, minimumRole) ==
    IF checkWorkspaceAccess(db, userId, workspaceId, minimumRole).hasAccess
    THEN <<"ok", "">> ELSE InsufficientPermissions(minimumRole)

\* Variant: a user whose global_status is ADMIN passes every project check.
requireProjectAccess_adminOverride(db, userId, projectId, minimumRole) ==
    IF \/ checkProjectAccess(db, userId, projectId, minimumRole).hasAccess
       \/ (userId \in DOMAIN db.users /\ db.users[userId] = "ADMIN")
    THEN <<"ok", "">> ELSE InsufficientPermissions(minimumRole)

requireProjectAccess(db, userId, projectId, minimumRole) ==
    IF checkProjectAccess(db, userId, projectId, minimumRole).hasAccess
    THEN <<"ok", "">> ELSE InsufficientPermissions(minimumRole)

\* ------------------------------------------------------------- outcomes
Ok == <<"ok", "">>
Unauthorized == <<"Unauthorized", "">>
ForbiddenAdmin == <<"Forbidden: Admin access required", "">>
ForbiddenOwner == <<"Forbidden: Owner access required", "">>
ForbiddenLead == <<"Forbidden: Project Lead access required", "">>
ForbiddenLeadOrOwner ==
    <<"Forbidden: Project Lead or Workspace Owner access required", "">>
ForbiddenTask == <<"Forbidden", "">>
ProjectNotFound == <<"Project not found", "">>
TaskNotFound == <<"Task not found", "">>
PreconditionFailed == <<"User must be a workspace member first", "">>
\* A TypeError on a property of an undefined row, or an error of the store
\* (foreign key, enum or unique violation): surfaced as an internal error.
InternalError == <<"Internal server error", "">>
AiNotConfigured == <<"AI service not configured", "">>
FailedSummary == <<"Failed to generate summary", "">>
FailedTasks == <<"Failed to generate tasks", "">>

Undefined == "undefined"

Fail(db, error) == [result |-> error, db |-> db, pub |-> <<>>]
Done(db) == [result |-> Ok, db |-> db, pub |-> <<>>]

\* ------------------------------------------------------- admin resolvers
\* Variant: the Owner of a workspace passes the admin check too.
banUser_ownerCounts(db, ctx, userId) ==
    IF ctx.userId = NoUser THEN Fail(db, Unauthorized)
    ELSE LET adminUser == getUserById(db, ctx.userId) IN
         IF ~adminUser.found THEN Fail(db, InternalError)
         ELSE IF /\ adminUser.global_status # "ADMIN"
                 /\ ~\E m \in db.workspace_members :
                        m.user_id = ctx.userId /\ m.role = "Owner"
              THEN Fail(db, ForbiddenAdmin)
         ELSE Done([db EXCEPT !.users =
                      [u \in DOMAIN db.users |->
                          IF u = userId THEN "BANNED" ELSE db.users[u]]])

banUser(db, ctx, userId) ==
    IF ctx.userId = NoUser THEN Fail(db, Unauthorized)
    ELSE LET adminUser == getUserById(db, ctx.userId) IN
         IF ~adminUser.found THEN Fail(db, InternalError)
         ELSE IF adminUser.global_status # "ADMIN" THEN Fail(db, ForbiddenAdmin)
         ELSE Done([db EXCEPT !.users =
                      [u \in DOMAIN db.users |->
                          IF u = userId THEN "BANNED" ELSE db.users[u]]])

unbanUser(db, ctx, userId) ==
    IF ctx.userId = NoUser THEN Fail(db, Unauthorized)
    ELSE LET adminUser == getUserById(db, ctx.userId) IN
         IF ~adminUser.found THEN Fail(db, InternalError)
         ELSE IF adminUser.global_status # "ADMIN" THEN Fail(db, ForbiddenAdmin)
         ELSE Done([db EXCEPT !.users =
                      [u \in DOMAIN db.users |->
                          IF u = userId THEN "ACTIVE" ELSE db.users[u]]])

\* The password hash is not part of the modelled row: the store is unchanged.
adminResetPassword(db, ctx, userId) ==
    IF ctx.userId = NoUser THEN Fail(db, Unauthorized)
    ELSE LET adminUser == getUserById(db, ctx.userId) IN
         IF ~adminUser.found THEN Fail(db, InternalError)
         ELSE IF adminUser.global_status # "ADMIN" THEN Fail(db, ForbiddenAdmin)
         ELSE Done(db)

getAllWorkspaces(db, ctx) ==
    IF ctx.userId = NoUser THEN Fail(db, Unauthorized)
    ELSE LET user == getUserById(db, ctx.userId) IN
         IF ~user.found THEN Fail(db, InternalError)
         ELSE IF user.global_status # "ADMIN" THEN Fail(db, ForbiddenAdmin)
         ELSE Done(db)

\* --------------------------------------------------- workspace resolvers
getWorkspace(db, ctx, id) ==
    IF ctx.userId = NoUser THEN Fail(db, Unauthorized)
    ELSE LET guard == requireWorkspaceAccess(db, ctx.userId, id, "Viewer") IN
         IF guard # Ok THEN Fail(db, guard) ELSE Done(db)

\* Two inserts: the workspace row, then the creator's Owner row.
\* The two statements of createWorkspace, each its own query().
InsertWorkspace(db, newId) == [db EXCEPT !.workspaces = @ \cup {newId}]

InsertOwner(db, workspaceId, userId) ==
    [db EXCEPT !.workspace_members = @ \cup
        {[workspace_id |-> workspaceId, user_id |-> userId, role |-> "Owner"]}]

createWorkspace(db, ctx, newId) ==
    IF ctx.userId = NoUser THEN Fail(db, Unauthorized)
    ELSE IF ctx.userId \notin DOMAIN db.users THEN Fail(db, InternalError)
    ELSE Done(InsertOwner(InsertWorkspace(db, newId), newId, ctx.userId))

\* Variant: the INSERT runs only while the caller is still an Owner.
insertWorkspaceMember_recheck(db, ctx, workspaceId, userId) ==
    IF ~checkWorkspaceOwnership(db, ctx.userId, workspaceId)
    THEN Fail(db, ForbiddenOwner)
    ELSE IF userId \notin DOMAIN db.users THEN Fail(db, InternalError)
    ELSE IF WorkspaceRows(db, userId, workspaceId) # {} THEN Done(db)
    ELSE Done([db EXCEPT !.workspace_members = @ \cup
                 {[workspace_id |-> workspaceId, user_id |-> userId,
                   role |-> "Member"]}])

\* Variant: ON CONFLICT (workspace_id, user_id) DO UPDATE SET role = 'Member'.
insertWorkspaceMember_upsert(db, ctx, workspaceId, userId) ==
    IF userId \notin DOMAIN db.users THEN Fail(db, InternalError)
    ELSE Done([db EXCEPT !.workspace_members =
                 (@ \ WorkspaceRows(db, userId, workspaceId)) \cup
                 {[workspace_id |-> workspaceId, user_id |-> userId,
                   role |-> "Member"]}])

\* addWorkspaceMember from its INSERT on:
\* INSERT ... VALUES (w, u, 'Member') ON CONFLICT DO NOTHING, return true.
insertWorkspaceMember(db, ctx, workspaceId, userId) ==
    IF userId \notin DOMAIN db.users THEN Fail(db, InternalError)
    ELSE IF WorkspaceRows(db, userId, workspaceId) # {} THEN Done(db)
    ELSE Done([db EXCEPT !.workspace_members = @ \cup
                 {[workspace_id |-> workspaceId, user_id |-> userId,
                   role |-> "Member"]}])

addWorkspaceMember(db, ctx, workspaceId, userId) ==
    IF ctx.userId = NoUser THEN Fail(db, Unauthorized)
    ELSE IF ~checkWorkspaceOwnership(db, ctx.userId, workspaceId)
         THEN Fail(db, ForbiddenOwner)
    ELSE insertWorkspaceMember(db, ctx, workspaceId, userId)

removeWorkspaceMember(db, ctx, workspaceId, userId) ==
    IF ctx.userId = NoUser THEN Fail(db, Unauthorized)
    ELSE IF ~checkWorkspaceOwnership(db, ctx.userId, workspaceId)
         THEN Fail(db, ForbiddenOwner)
    ELSE Done([db EXCEPT !.workspace_members =
                 @ \ WorkspaceRows(db, userId, workspaceId)])

\* Variant: the UPDATE names the user and not the workspace.
updateWorkspaceMemberRole_everyWorkspace(db, ctx, workspaceId, userId, role) ==
    IF ctx.userId = NoUser THEN Fail(db, Unauthorized)
    ELSE IF ~checkWorkspaceOwnership(db, ctx.userId, workspaceId)
         THEN Fail(db, ForbiddenOwner)
    ELSE IF role \notin WorkspaceRoles THEN Fail(db, InternalError)
    ELSE Done([db EXCEPT !.workspace_members =
                 {IF m.user_id = userId
                  THEN [m EXCEPT !.role = role] ELSE m : m \in @}])

\* UPDATE ... SET role = $1: a value outside the workspace_role enum is
\* rejected by the store.
updateWorkspaceMemberRole(db, ctx, workspaceId, userId, role) ==
    IF ctx.userId = NoUser THEN Fail(db, Unauthorized)
    ELSE IF ~checkWorkspaceOwnership(db, ctx.userId, workspaceId)
         THEN Fail(db, ForbiddenOwner)
    ELSE IF role \notin WorkspaceRoles THEN Fail(db, InternalError)
    ELSE Done([db EXCEPT !.workspace_members =
                 {IF m \in WorkspaceRows(db, userId, workspaceId)
                  THEN [m EXCEPT !.role = role] ELSE m : m \in @}])

\* ----------------------------------------------------- project resolvers
ProjectRow(db, projectId) == {p \in db.projects : p.id = projectId}

NoId == <<"undefined", 0>>

\* SELECT workspace_id FROM projects WHERE id = $1, rows[0]?.workspace_id
WorkspaceOfProject(db, projectId) ==
    IF ProjectRow(db, projectId) = {} THEN NoId
    ELSE (CHOOSE p \in ProjectRow(db, projectId) : TRUE).workspace_id

TasksOfProject(db, projectId) == {t \in db.tasks : t.project_id = projectId}

\* DELETE FROM tasks ...: task_assignments rows go with their task.
DeleteTasks(db, gone) ==
    [db EXCEPT !.tasks = @ \ gone,
               !.task_assignments =
                   {a \in @ : a.task_id \notin {t.id : t \in gone}}]

\* DELETE FROM projects WHERE id = $1: ON DELETE CASCADE removes the
\* project's members and tasks.
DeleteProjectRow(db, projectId) ==
    [DeleteTasks(db, TasksOfProject(db, projectId)) EXCEPT
        !.projects = @ \ ProjectRow(db, projectId),
        !.project_members = {m \in @ : m.project_id # projectId}]

getProject(db, ctx, id) ==
    IF ctx.userId = NoUser THEN Fail(db, Unauthorized)
    ELSE LET guard == requireProjectAccess(db, ctx.userId, id, "Project Viewer") IN
         IF guard # Ok THEN Fail(db, guard) ELSE Done(db)

\* Two inserts: the project row, then the creator's Project Lead row.
\* The two statements of createProject, each its own query().
InsertProject(db, newId, workspaceId) ==
    [db EXCEPT !.projects = @ \cup {[id |-> newId, workspace_id |-> workspaceId]}]

InsertLead(db, projectId, userId) ==
    [db EXCEPT !.project_members = @ \cup
        {[project_id |-> projectId, user_id |-> userId, role |-> "Project Lead"]}]

createProject(db, ctx, workspaceId, newId) ==
    IF ctx.userId = NoUser THEN Fail(db, Unauthorized)
    ELSE LET guard == requireWorkspaceAccess(db, ctx.userId, workspaceId, "Member") IN
         IF guard # Ok THEN Fail(db, guard)
         ELSE Done(InsertLead(InsertProject(db, newId, workspaceId),
                              newId, ctx.userId))

\* name and description are not modelled: the rows stay as they are.
updateProject(db, ctx, id) ==
    IF ctx.userId = NoUser THEN Fail(db, Unauthorized)
    ELSE IF ~checkProjectLeadAccess(db, ctx.userId, id) THEN Fail(db, ForbiddenLead)
    ELSE Done(db)

deleteProject(db, ctx, id) ==
    IF ctx.userId = NoUser THEN Fail(db, Unauthorized)
    ELSE IF ~checkProjectLeadAccess(db, ctx.userId, id) THEN Fail(db, ForbiddenLead)
    ELSE Done(DeleteProjectRow(db, id))

\* Variant: no fallback to the workspace Owner.
LeadOrOwnerOfParent_leadOnly(db, userId, projectId) ==
    IF checkProjectLeadAccess(db, userId, projectId) THEN <<"ok", "">>
    ELSE <<"Forbidden: Project Lead or Workspace Owner access required", "">>

\* The escalation of addProjectMember and removeProjectMember: Project Lead
\* first, then Owner of the project's workspace. "ok" or the error thrown.
LeadOrOwnerOfParent(db, userId, projectId) ==
    IF checkProjectLeadAccess(db, userId, projectId) THEN Ok
    ELSE LET workspaceId == WorkspaceOfProject(db, projectId) IN
         IF workspaceId = NoId THEN ProjectNotFound
         ELSE IF ~checkWorkspaceOwnership(db, userId, workspaceId)
              THEN ForbiddenLeadOrOwner
         ELSE Ok

\* Variant: the target's workspace membership is not checked.
addProjectMember_noPrecondition(db, ctx, projectId, userId) ==
    IF ctx.userId = NoUser THEN Fail(db, Unauthorized)
    ELSE LET guard == LeadOrOwnerOfParent(db, ctx.userId, projectId) IN
         IF guard # Ok THEN Fail(db, guard)
         ELSE IF ProjectRows(db, userId, projectId) # {} THEN Done(db)
         ELSE Done([db EXCEPT !.project_members = @ \cup
                      {[project_id |-> projectId, user_id |-> userId,
                        role |-> "Contributor"]}])

\* Variant: the target must be at least Member of the workspace.
addProjectMember_membersOnly(db, ctx, projectId, userId) ==
    IF ctx.userId = NoUser THEN Fail(db, Unauthorized)
    ELSE LET guard == LeadOrOwnerOfParent(db, ctx.userId, projectId) IN
         IF guard # Ok THEN Fail(db, guard)
         ELSE LET workspaceId == WorkspaceOfProject(db, projectId) IN
              IF ~checkWorkspaceAccess(db, userId, workspaceId, "Member").hasAccess
              THEN Fail(db, PreconditionFailed)
              ELSE IF ProjectRows(db, userId, projectId) # {} THEN Done(db)
              ELSE Done([db EXCEPT !.project_members = @ \cup
                           {[project_id |-> projectId, user_id |-> userId,
                             role |-> "Contributor"]}])

\* INSERT ... VALUES (p, u, 'Contributor') ON CONFLICT DO NOTHING
addProjectMember(db, ctx, projectId, userId) ==
    IF ctx.userId = NoUser THEN Fail(db, Unauthorized)
    ELSE LET guard == LeadOrOwnerOfParent(db, ctx.userId, projectId) IN
         IF guard # Ok THEN Fail(db, guard)
         ELSE LET workspaceId == WorkspaceOfProject(db, projectId) IN
              IF ~checkWorkspaceAccess(db, userId, workspaceId, "Viewer").hasAccess
              THEN Fail(db, PreconditionFailed)
              ELSE IF ProjectRows(db, userId, projectId) # {} THEN Done(db)
              ELSE Done([db EXCEPT !.project_members = @ \cup
                           {[project_id |-> projectId, user_id |-> userId,
                             role |-> "Contributor"]}])

removeProjectMember(db, ctx, projectId, userId) ==
    IF ctx.userId = NoUser THEN Fail(db, Unauthorized)
    ELSE LET guard == LeadOrOwnerOfParent(db, ctx.userId, projectId) IN
         IF guard # Ok THEN Fail(db, guard)
         ELSE Done([db EXCEPT !.project_members =
                      @ \ ProjectRows(db, userId, projectId)])

\* The fallback asks checkWorkspaceOwnership about the id it was given,
\* which is the project's id.
updateProjectMemberRole(db, ctx, projectId, userId, role) ==
    IF ctx.userId = NoUser THEN Fail(db, Unauthorized)
    ELSE IF /\ ~checkProjectLeadAccess(db, ctx.userId, projectId)
            /\ ~checkWorkspaceOwnership(db, ctx.userId, projectId)
         THEN Fail(db, ForbiddenLeadOrOwner)
    ELSE IF role \notin ProjectRoles THEN Fail(db, InternalError)
    ELSE Done([db EXCEPT !.project_members =
                 {IF m \in ProjectRows(db, userId, projectId)
                  THEN [m EXCEPT !.role = role] ELSE m : m \in @}])

\* -------------------------------------------------------- task resolvers
TaskRow(db, taskId) == {t \in db.tasks : t.id = taskId}

AssigneesOf(db, taskId) ==
    {a.user_id : a \in {x \in db.task_assignments : x.task_id = taskId}}

\* createNotification: one more row for the recipient about the task.
createNotification(db, recipientId, relatedEntityId) ==
    [db EXCEPT !.notifications[<<recipientId, relatedEntityId>>] = @ + 1]

\* createTask's loop over assignedToIds: INSERT ... ON CONFLICT DO NOTHING,
\* then a notification, for each id in order; an id of no user stops the
\* loop with the store's error, the earlier iterations stay committed.
RECURSIVE AssignOnCreate(_, _, _)
AssignOnCreate(db, taskId, ids) ==
    IF ids = <<>> THEN Done(db)
    ELSE IF Head(ids) \notin DOMAIN db.users THEN Fail(db, InternalError)
    ELSE AssignOnCreate(
            createNotification(
                [db EXCEPT !.task_assignments = @ \cup
                    {[task_id |-> taskId, user_id |-> Head(ids)]}],
                Head(ids), taskId),
            taskId, Tail(ids))

\* updateTask's loop: a plain INSERT (a second row for the same user breaks
\* unique_task_assignment and throws), then a notification for ids that
\* were not assigned before the call.
RECURSIVE AssignOnUpdate(_, _, _, _)
AssignOnUpdate(db, taskId, ids, oldAssignedToIds) ==
    IF ids = <<>> THEN Done(db)
    ELSE IF \/ Head(ids) \notin DOMAIN db.users
            \/ Head(ids) \in AssigneesOf(db, taskId)
         THEN Fail(db, InternalError)
    ELSE LET inserted == [db EXCEPT !.task_assignments = @ \cup
                             {[task_id |-> taskId, user_id |-> Head(ids)]}] IN
         AssignOnUpdate(
            IF Head(ids) \in oldAssignedToIds THEN inserted
            ELSE createNotification(inserted, Head(ids), taskId),
            taskId, Tail(ids), oldAssignedToIds)

getTask(db, ctx, id) ==
    IF ctx.userId = NoUser THEN Fail(db, Unauthorized)
    ELSE IF TaskRow(db, id) = {} THEN Fail(db, TaskNotFound)
    ELSE LET task == CHOOSE t \in TaskRow(db, id) : TRUE IN
         IF ~checkProjectAccess(db, ctx.userId, task.project_id,
                                "Project Viewer").hasAccess
         THEN Fail(db, ForbiddenTask)
         ELSE Done(db)

createTask(db, ctx, projectId, assignedToIds, newId) ==
    IF ctx.userId = NoUser THEN Fail(db, Unauthorized)
    ELSE LET guard == requireProjectAccess(db, ctx.userId, projectId, "Contributor") IN
         IF guard # Ok THEN Fail(db, guard)
         ELSE LET inserted == [db EXCEPT !.tasks = @ \cup
                                 {[id |-> newId, project_id |-> projectId,
                                   status |-> "TODO"]}] IN
              IF ~assignedToIds.given THEN Done(inserted)
              ELSE AssignOnCreate(inserted, newId, assignedToIds.ids)

\* Variant: the status is written before the role check.
updateTask_writeFirst(db, ctx, id, otherFields, status, assignedToIds) ==
    IF ctx.userId = NoUser THEN Fail(db, Unauthorized)
    ELSE IF TaskRow(db, id) = {} THEN Fail(db, TaskNotFound)
    ELSE
    LET existingTask == CHOOSE t \in TaskRow(db, id) : TRUE
        guard == requireProjectAccess(db, ctx.userId, existingTask.project_id,
                                      "Contributor")
        updated ==
            IF status = Undefined THEN db
            ELSE [db EXCEPT !.tasks =
                     {IF t.id = id THEN [t EXCEPT !.status = status] ELSE t : t \in @}]
    IN IF guard # Ok THEN Fail(updated, guard) ELSE Done(updated)

\* status is Undefined and assignedToIds.given is FALSE when the argument is
\* absent; otherFields says whether title or description is given.
updateTask(db, ctx, id, otherFields, status, assignedToIds) ==
    IF ctx.userId = NoUser THEN Fail(db, Unauthorized)
    ELSE IF TaskRow(db, id) = {} THEN Fail(db, TaskNotFound)
    ELSE
    LET existingTask == CHOOSE t \in TaskRow(db, id) : TRUE
        guard == requireProjectAccess(db, ctx.userId, existingTask.project_id,
                                      "Contributor")
        oldAssignedToIds == AssigneesOf(db, id)
        updated ==
            IF status = Undefined THEN db
            ELSE [db EXCEPT !.tasks =
                     {IF t.id = id THEN [t EXCEPT !.status = status] ELSE t : t \in @}]
        cleared == [updated EXCEPT !.task_assignments =
                       {a \in @ : a.task_id # id}]
        assigned ==
            IF ~assignedToIds.given THEN Done(updated)
            ELSE AssignOnUpdate(cleared, id, assignedToIds.ids, oldAssignedToIds)
    IN
    IF guard # Ok THEN Fail(db, guard)
    ELSE IF ~otherFields /\ status = Undefined /\ ~assignedToIds.given
         THEN Done(db)
    ELSE IF assigned.result # Ok THEN assigned
    ELSE IF status # Undefined /\ status # existingTask.status
         THEN [assigned EXCEPT !.pub =
                  <<[channel |-> WorkspaceOfProject(db, existingTask.project_id),
                     task |-> id, status |-> status]>>]
    ELSE assigned

deleteTask(db, ctx, id) ==
    IF ctx.userId = NoUser THEN Fail(db, Unauthorized)
    ELSE IF TaskRow(db, id) = {} THEN Fail(db, TaskNotFound)
    ELSE LET existingTask == CHOOSE t \in TaskRow(db, id) : TRUE
             guard == requireProjectAccess(db, ctx.userId,
                                           existingTask.project_id, "Contributor")
         IN IF guard # Ok THEN Fail(db, guard)
            ELSE Done(DeleteTasks(db, TaskRow(db, id)))

\* ------------------------------------------------------------ AI mutations
\* new GoogleGenerativeAI(apiKey) when a key is configured, null otherwise.
aiClient == config.apiKey # ""

\* answered is FALSE when generateContent throws.
summarizeTask(db, answered) ==
    IF ~aiClient THEN Fail(db, AiNotConfigured)
    ELSE IF ~answered THEN Fail(db, FailedSummary)
    ELSE Done(db)

\* One INSERT per item of the parsed answer; an item without a title breaks
\* the NOT NULL constraint and ends the loop with the earlier rows kept.
RECURSIVE InsertGenerated(_, _, _, _)
InsertGenerated(db, projectId, items, newIds) ==
    IF items = <<>> THEN Done(db)
    ELSE IF ~Head(items) THEN Fail(db, FailedTasks)
    ELSE InsertGenerated(
            [db EXCEPT !.tasks = @ \cup
                {[id |-> Head(newIds), project_id |-> projectId, status |-> "TODO"]}],
            projectId, Tail(items), Tail(newIds))

\* answer.parsed is FALSE when generateContent throws or its text is not
\* JSON; answer.items says of each parsed item whether it has a title.
generateTasksFromPrompt(db, ctx, projectId, answer, newIds) ==
    IF ctx.userId = NoUser THEN Fail(db, Unauthorized)
    ELSE IF ~aiClient THEN Fail(db, AiNotConfigured)
    ELSE LET guard == requireProjectAccess(db, ctx.userId, projectId, "Contributor") IN
         IF guard # Ok THEN Fail(db, guard)
         ELSE IF ~answer.parsed THEN Fail(db, FailedTasks)
         ELSE InsertGenerated(db, projectId, answer.items, newIds)

\* Subscription.taskStatusUpdated.subscribe: the iterator on the workspace's
\* channel is handed out after the Viewer check.
taskStatusUpdated(db, ctx, workspaceId) ==
    IF ctx.userId = NoUser THEN Fail(db, Unauthorized)
    ELSE LET guard == requireWorkspaceAccess(db, ctx.userId, workspaceId, "Viewer") IN
         IF guard # Ok THEN Fail(db, guard) ELSE Done(db)

\* ---------------------------------------------------------------- inputs
\* What a request can carry as its bearer credential.
Bearers == issued \cup {NoToken, ForgedToken}
\* The role argument is a string: the roles of the enum and one value that
\* is not in it.
WorkspaceRoleInputs == WorkspaceRoles \cup {"Project Lead"}
ProjectRoleInputs == ProjectRoles \cup {"Owner"}
AssigneeLists ==
    UNION {[1..n -> UserIds] : n \in 0..MaxAssignees}
\* The optional assignedToIds argument: absent, or a list (possibly empty).
AssigneeInputs ==
    {[given |-> FALSE, ids |-> <<>>]} \cup
    {[given |-> TRUE, ids |-> ids] : ids \in AssigneeLists}

\* The id the store generates for a new row: the first free id of the pool.
AiAnswers ==
    {[parsed |-> FALSE, items |-> <<>>]} \cup
    {[parsed |-> TRUE, items |-> items] :
        items \in UNION {[1..n -> BOOLEAN] : n \in 0..MaxTasks}}

FreshId(pool, used) ==
    {id \in pool \ used : \A other \in pool \ used : id[2] <= other[2]}

\* The ids the store generates for n new rows: the first n free ids of the
\* pool, in order; no value when the pool has fewer.
RECURSIVE FreshIds(_, _, _)
FreshIds(pool, used, n) ==
    IF n = 0 THEN {<<>>}
    ELSE {<<id>> \o rest : id \in FreshId(pool, used),
                           rest \in UNION {FreshIds(pool, used \cup {x}, n - 1) :
                                             x \in FreshId(pool, used)}}

NotificationCount(db) ==
    LET keys == DOMAIN db.notifications
        RECURSIVE Sum(_)
        Sum(S) == IF S = {} THEN 0
                  ELSE LET k == CHOOSE x \in S : TRUE
                       IN db.notifications[k] + Sum(S \ {k})
    IN Sum(keys)

\* ----------------------------------------------------------------- steps
NoResp == [op |-> "none", caller |-> NoUser, entity |-> NoId, target |-> NoUser,
           value |-> "", result |-> <<"none", "">>]

NoPending == [op |-> "none", caller |-> NoUser, id |-> NoId, target |-> NoUser]

\* The process once startServer() has returned: the pool answers, Apollo is
\* started, the HTTP server listens and the signal handlers are registered.
Serving == [phase |-> "listening", pool |-> "open", apollo |-> "started",
            timer |-> FALSE, signal |-> FALSE, exit |-> "running"]

InitStatus == [u \in UserIds |-> IF u = "u1" THEN "ADMIN" ELSE "ACTIVE"]

\* The seeded admin and two registered users, each holding the access token
\* of a login; no workspace yet.  The process has read one of cfgs.
InitWith(cfgs) ==
    /\ users = InitStatus
    /\ workspaces = {}
    /\ workspace_members = {}
    /\ projects = {}
    /\ project_members = {}
    /\ tasks = {}
    /\ task_assignments = {}
    /\ notifications = [k \in UserIds \X TaskIds |-> 0]
    /\ published = <<>>
    /\ subscribers = {}
    /\ config \in cfgs
    /\ proc = Serving
    /\ user_devices = {DeviceRow(u, <<u, 0>>, "10.0.0.1", "curl", 0) :
                          u \in UserIds}
    /\ issued = {signAccess(u, InitStatus[u]) : u \in UserIds}
    /\ pending = NoPending
    /\ resp = NoResp

\* No environment variable is set.
Init == InitWith({DefaultConfig})

\* The AI key may be set.
InitTasks == InitWith({c \in Configs : c.secret = DefaultSecret
                                      /\ c.refreshSecret = DefaultSecret})

\* pubsub.publish(trigger, payload): each message goes, in order, to the
\* listeners attached to its channel at that moment.
publish_everyChannel(listeners, pub) ==
    {[s EXCEPT !.received = @ \o pub] : s \in listeners}

publish(listeners, pub) ==
    {[s EXCEPT !.received =
          @ \o SelectSeq(pub, LAMBDA m : m.channel = s.channel)] :
        s \in listeners}

\* Variant: a new listener is handed the channel's earlier messages.
asyncIterator_replay(listeners, userId, workspaceId, log) ==
    listeners \cup
        {[user_id |-> userId, channel |-> workspaceId, since |-> Len(log),
          received |-> SelectSeq(log, LAMBDA m : m.channel = workspaceId)]}

\* pubsub.asyncIterator([trigger]): one more listener on the channel, with
\* nothing received; since is how many messages had been published by then.
asyncIterator(listeners, userId, workspaceId, log) ==
    listeners \cup
        {[user_id |-> userId, channel |-> workspaceId, since |-> Len(log),
          received |-> <<>>]}

\* The server answers a request (it takes one once the previous response has
\* been sent, resp = NoResp): the store becomes the resolver's store,
\* its messages are published and the response is on its way to the client.
\* entity, target and value name the workspace, project or task, the user
\* and the role or status the request carried.
Respond(op, ctx, entity, target, value, out, listeners) ==
    /\ NotificationCount(out.db) <= MaxNotifications
    /\ Len(published) + Len(out.pub) <= MaxPublished
    /\ users' = out.db.users
    /\ workspaces' = out.db.workspaces
    /\ workspace_members' = out.db.workspace_members
    /\ projects' = out.db.projects
    /\ project_members' = out.db.project_members
    /\ tasks' = out.db.tasks
    /\ task_assignments' = out.db.task_assignments
    /\ notifications' = out.db.notifications
    /\ user_devices' = out.db.user_devices
    /\ published' = published \o out.pub
    /\ subscribers' = publish(listeners, out.pub)
    /\ resp' = [op |-> op, caller |-> ctx.userId, entity |-> entity,
                target |-> target, value |-> value, result |-> out.result]
    /\ UNCHANGED <<issued, config, proc>>

\* A request that attaches no listener.
Answer(op, ctx, entity, target, value, out) ==
    Respond(op, ctx, entity, target, value, out, subscribers)

\* A resolver that runs from its first statement to its last with no other
\* request in between.
Commit(op, ctx, entity, target, value, out) ==
    /\ Answer(op, ctx, entity, target, value, out)
    /\ UNCHANGED pending

\* The response has been sent; the server takes the next request.
Deliver ==
    /\ resp # NoResp
    /\ resp' = NoResp
    /\ UNCHANGED <<users, workspaces, workspace_members, projects,
                   project_members, tasks, task_assignments, notifications,
                   published, subscribers, user_devices, issued, config, proc,
                   pending>>

BanUser ==
    /\ resp = NoResp
    /\ \E token \in Bearers, userId \in UserIds :
        \E ctx \in {getContext(DB, token)} :
            \E out \in {banUser(DB, ctx, userId)} :
                Commit("banUser", ctx, NoId, userId, "", out)

UnbanUser ==
    /\ resp = NoResp
    /\ \E token \in Bearers, userId \in UserIds :
        \E ctx \in {getContext(DB, token)} :
            \E out \in {unbanUser(DB, ctx, userId)} :
                Commit("unbanUser", ctx, NoId, userId, "", out)

AdminResetPassword ==
    /\ resp = NoResp
    /\ \E token \in Bearers, userId \in UserIds :
        \E ctx \in {getContext(DB, token)} :
            \E out \in {adminResetPassword(DB, ctx, userId)} :
                Commit("adminResetPassword", ctx, NoId, userId, "", out)

GetAllWorkspaces ==
    /\ resp = NoResp
    /\ \E token \in Bearers :
        \E ctx \in {getContext(DB, token)} :
            \E out \in {getAllWorkspaces(DB, ctx)} :
                Commit("getAllWorkspaces", ctx, NoId, NoUser, "", out)

GetWorkspace ==
    /\ resp = NoResp
    /\ \E token \in Bearers, id \in WorkspaceIds :
        \E ctx \in {getContext(DB, token)} :
            \E out \in {getWorkspace(DB, ctx, id)} :
                Commit("getWorkspace", ctx, id, NoUser, "", out)

CreateWorkspace ==
    /\ resp = NoResp
    /\ \E token \in Bearers, newId \in FreshId(WorkspaceIds, workspaces) :
        \E ctx \in {getContext(DB, token)} :
            \E out \in {createWorkspace(DB, ctx, newId)} :
                Commit("createWorkspace", ctx, newId, NoUser, "", out)

AddWorkspaceMember ==
    /\ resp = NoResp
    /\ \E token \in Bearers, workspaceId \in WorkspaceIds, userId \in UserIds :
        \E ctx \in {getContext(DB, token)} :
            \E out \in {addWorkspaceMember(DB, ctx, workspaceId, userId)} :
                Commit("addWorkspaceMember", ctx, workspaceId, userId, "", out)

RemoveWorkspaceMember ==
    /\ resp = NoResp
    /\ \E token \in Bearers, workspaceId \in WorkspaceIds, userId \in UserIds :
        \E ctx \in {getContext(DB, token)} :
            \E out \in {removeWorkspaceMember(DB, ctx, workspaceId, userId)} :
                Commit("removeWorkspaceMember", ctx, workspaceId, userId, "", out)

UpdateWorkspaceMemberRole ==
    /\ resp = NoResp
    /\ \E token \in Bearers, workspaceId \in WorkspaceIds, userId \in UserIds,
       role \in WorkspaceRoleInputs :
        \E ctx \in {getContext(DB, token)} :
            \E out \in {updateWorkspaceMemberRole(DB, ctx, workspaceId, userId, role)} :
                Commit("updateWorkspaceMemberRole", ctx, workspaceId, userId, role, out)

GetProject ==
    /\ resp = NoResp
    /\ \E token \in Bearers, id \in ProjectIds :
        \E ctx \in {getContext(DB, token)} :
            \E out \in {getProject(DB, ctx, id)} :
                Commit("getProject", ctx, id, NoUser, "", out)

CreateProject ==
    /\ resp = NoResp
    /\ \E token \in Bearers, workspaceId \in WorkspaceIds,
       newId \in FreshId(ProjectIds, {p.id : p \in projects}) :
        \E ctx \in {getContext(DB, token)} :
            \E out \in {createProject(DB, ctx, workspaceId, newId)} :
                Commit("createProject", ctx, newId, NoUser, "", out)

UpdateProject ==
    /\ resp = NoResp
    /\ \E token \in Bearers, id \in ProjectIds :
        \E ctx \in {getContext(DB, token)} :
            \E out \in {updateProject(DB, ctx, id)} :
                Commit("updateProject", ctx, id, NoUser, "", out)

DeleteProject ==
    /\ resp = NoResp
    /\ \E token \in Bearers, id \in ProjectIds :
        \E ctx \in {getContext(DB, token)} :
            \E out \in {deleteProject(DB, ctx, id)} :
                Commit("deleteProject", ctx, id, NoUser, "", out)

AddProjectMember ==
    /\ resp = NoResp
    /\ \E token \in Bearers, projectId \in ProjectIds, userId \in UserIds :
        \E ctx \in {getContext(DB, token)} :
            \E out \in {addProjectMember(DB, ctx, projectId, userId)} :
                Commit("addProjectMember", ctx, projectId, userId, "", out)

RemoveProjectMember ==
    /\ resp = NoResp
    /\ \E token \in Bearers, projectId \in ProjectIds, userId \in UserIds :
        \E ctx \in {getContext(DB, token)} :
            \E out \in {removeProjectMember(DB, ctx, projectId, userId)} :
                Commit("removeProjectMember", ctx, projectId, userId, "", out)

UpdateProjectMemberRole ==
    /\ resp = NoResp
    /\ \E token \in Bearers, projectId \in ProjectIds, userId \in UserIds,
       role \in ProjectRoleInputs :
        \E ctx \in {getContext(DB, token)} :
            \E out \in {updateProjectMemberRole(DB, ctx, projectId, userId, role)} :
                Commit("updateProjectMemberRole", ctx, projectId, userId, role, out)

GetTask ==
    /\ resp = NoResp
    /\ \E token \in Bearers, id \in TaskIds :
        \E ctx \in {getContext(DB, token)} :
            \E out \in {getTask(DB, ctx, id)} :
                Commit("getTask", ctx, id, NoUser, "", out)

CreateTask ==
    /\ resp = NoResp
    /\ \E token \in Bearers, projectId \in ProjectIds, assignedToIds \in AssigneeInputs,
       newId \in FreshId(TaskIds, {t.id : t \in tasks}) :
        \E ctx \in {getContext(DB, token)} :
            \E out \in {createTask(DB, ctx, projectId, assignedToIds, newId)} :
                Commit("createTask", ctx, newId, NoUser, "", out)

UpdateTask ==
    /\ resp = NoResp
    /\ \E token \in Bearers, id \in TaskIds, otherFields \in BOOLEAN,
       status \in TaskStatuses \cup {Undefined}, assignedToIds \in AssigneeInputs :
        \E ctx \in {getContext(DB, token)} :
            \E out \in {updateTask(DB, ctx, id, otherFields, status, assignedToIds)} :
                Commit("updateTask", ctx, id, NoUser, status, out)

DeleteTask ==
    /\ resp = NoResp
    /\ \E token \in Bearers, id \in TaskIds :
        \E ctx \in {getContext(DB, token)} :
            \E out \in {deleteTask(DB, ctx, id)} :
                Commit("deleteTask", ctx, id, NoUser, "", out)

SummarizeTask ==
    /\ resp = NoResp
    /\ \E token \in Bearers, answered \in BOOLEAN :
        \E ctx \in {getContext(DB, token)} :
            \E out \in {summarizeTask(DB, answered)} :
                Commit("summarizeTask", ctx, NoId, NoUser, "", out)

GenerateTasksFromPrompt ==
    /\ resp = NoResp
    /\ \E token \in Bearers, projectId \in ProjectIds, answer \in AiAnswers :
        \E newIds \in FreshIds(TaskIds, {t.id : t \in tasks}, Len(answer.items)) :
            \E ctx \in {getContext(DB, token)} :
                \E out \in {generateTasksFromPrompt(DB, ctx, projectId, answer, newIds)} :
                    Commit("generateTasksFromPrompt", ctx, projectId, NoUser, "", out)

TaskStatusUpdated ==
    /\ resp = NoResp
    /\ \E token \in Bearers, workspaceId \in WorkspaceIds \cup workspaces :
        \E ctx \in {getContext(DB, token)} :
            \E out \in {taskStatusUpdated(DB, ctx, workspaceId)} :
                \E listeners \in
                       {IF out.result = Ok
                        THEN asyncIterator(subscribers, ctx.userId, workspaceId,
                                           published)
                        ELSE subscribers} :
                    /\ Cardinality(listeners) <= MaxSubscribers
                    /\ Respond("taskStatusUpdated", ctx, workspaceId, NoUser, "",
                               out, listeners)
                    /\ UNCHANGED pending

\* createWorkspace and createProject statement by statement: the first
\* INSERT has been awaited, the second has not run yet, and the server
\* serves other requests in between.
WriteStore(db) ==
    /\ users' = db.users
    /\ workspaces' = db.workspaces
    /\ workspace_members' = db.workspace_members
    /\ projects' = db.projects
    /\ project_members' = db.project_members
    /\ tasks' = db.tasks
    /\ task_assignments' = db.task_assignments
    /\ notifications' = db.notifications
    /\ user_devices' = db.user_devices

CreateWorkspaceFirstInsert ==
    /\ resp = NoResp
    /\ pending = NoPending
    /\ \E token \in issued, newId \in FreshId(WorkspaceIds, workspaces) :
        \E ctx \in {getContext(DB, token)} :
            /\ ctx.userId \in DOMAIN users
            /\ WriteStore(InsertWorkspace(DB, newId))
            /\ pending' = [op |-> "createWorkspace", caller |-> ctx.userId,
                           id |-> newId, target |-> NoUser]
    /\ UNCHANGED <<published, subscribers, issued, config, proc, resp>>

CreateWorkspaceSecondInsert ==
    /\ resp = NoResp
    /\ pending.op = "createWorkspace"
    /\ Answer("createWorkspace", [userId |-> pending.caller], pending.id, NoUser, "",
              Done(InsertOwner(DB, pending.id, pending.caller)))
    /\ pending' = NoPending

CreateProjectFirstInsert ==
    /\ resp = NoResp
    /\ pending = NoPending
    /\ \E token \in issued, workspaceId \in WorkspaceIds,
          newId \in FreshId(ProjectIds, {p.id : p \in projects}) :
        \E ctx \in {getContext(DB, token)} :
            /\ ctx.userId # NoUser
            /\ requireWorkspaceAccess(DB, ctx.userId, workspaceId, "Member") = Ok
            /\ WriteStore(InsertProject(DB, newId, workspaceId))
            /\ pending' = [op |-> "createProject", caller |-> ctx.userId,
                           id |-> newId, target |-> NoUser]
    /\ UNCHANGED <<published, subscribers, issued, config, proc, resp>>

CreateProjectSecondInsert ==
    /\ resp = NoResp
    /\ pending.op = "createProject"
    /\ Answer("createProject", [userId |-> pending.caller], pending.id, NoUser, "",
              Done(InsertLead(DB, pending.id, pending.caller)))
    /\ pending' = NoPending

\* The second query() rejects (the connection is lost, the statement times
\* out): the resolver throws and the first row stays.
SecondInsertFails ==
    /\ resp = NoResp
    /\ pending # NoPending
    /\ Answer(pending.op, [userId |-> pending.caller], pending.id, NoUser, "",
              Fail(DB, InternalError))
    /\ pending' = NoPending

NextSteps ==
    \/ CreateWorkspaceFirstInsert
    \/ CreateWorkspaceSecondInsert
    \/ CreateProjectFirstInsert
    \/ CreateProjectSecondInsert
    \/ SecondInsertFails
    \/ GetAllWorkspaces
    \/ GetWorkspace
    \/ GetProject
    \/ Deliver

SpecSteps == Init /\ [][NextSteps]_vars

\* ------------------------------------------------------- sessions (REST)
\* What a login request carries: a registered email or an unknown one, and
\* that account's password or another string.
Emails == UserIds \cup {"nobody"}
Passwords(email) == {<<"pw", email>>, <<"pw", "wrong">>}

\* What a client can send as x-device-id: nothing, or a string of its own.
\* The uuid of generateDeviceId() is in no response.
ClientDeviceHeaders == {UnknownDevice, <<"client", 0>>}

\* The latest time a user_devices row holds: NOW() is never before it.  The
\* routes below run while the clock still reads that time.
Latest(db) ==
    LET times == {0} \cup {d.login_time : d \in db.user_devices}
                     \cup {d.revoked_at : d \in db.user_devices}
    IN CHOOSE t \in times : \A other \in times : other <= t

\* Nobody is logged in; the process has read its configuration, with or
\* without JWT_SECRET and JWT_REFRESH_SECRET in the environment.
InitSession ==
    /\ users = InitStatus
    /\ workspaces = {}
    /\ workspace_members = {}
    /\ projects = {}
    /\ project_members = {}
    /\ tasks = {}
    /\ task_assignments = {}
    /\ notifications = [k \in UserIds \X TaskIds |-> 0]
    /\ published = <<>>
    /\ subscribers = {}
    /\ config \in {c \in Configs : c.apiKey = ""}
    /\ proc = Serving
    /\ user_devices = {}
    /\ issued = {}
    /\ pending = NoPending
    /\ resp = NoResp

\* A route answers: devices are written, tokens are handed out.
Reply(op, caller, entity, target, value, out) ==
    /\ user_devices' = out.db.user_devices
    /\ issued' = issued \cup out.tokens
    /\ resp' = [op |-> op, caller |-> caller, entity |-> entity,
                target |-> target, value |-> value, result |-> out.result]
    /\ UNCHANGED <<users, workspaces, workspace_members, projects,
                   project_members, tasks, task_assignments, notifications,
                   published, subscribers, config, proc, pending>>

Login ==
    /\ resp = NoResp
    /\ \E email \in Emails :
        \E password \in Passwords(email) :
            \E deviceId \in FreshId(DeviceIds,
                                    {d.device_id : d \in user_devices}) :
                \E out \in {login(DB, email, password, deviceId,
                                   "10.0.0.1", "curl", Latest(DB))} :
                    Reply("login", NoUser,
                          IF out.result = LoggedIn THEN deviceId ELSE NoId,
                          email,
                          IF comparePassword(password,
                                             hashPassword(<<"pw", email>>))
                          THEN "password" ELSE "wrong password",
                          out)

Logout ==
    /\ resp = NoResp
    /\ \E token \in Bearers, refreshToken \in BOOLEAN,
          deviceHeader \in ClientDeviceHeaders :
        \E out \in {logout(DB, token, refreshToken, deviceHeader, Latest(DB))} :
            Reply("logout",
                  IF out.result = LoggedOut THEN token.userId ELSE NoUser,
                  deviceHeader, NoUser,
                  IF refreshToken THEN "refresh token" ELSE "", out)

\* What a client can send to POST /auth/refresh: any credential it holds,
\* among them refresh tokens that have expired or were never handed out.
RefreshInputs ==
    Bearers \cup {signRefresh(u, InitStatus[u]) : u \in UserIds}

\* The response records the request: whose token it was, its lifetime, its
\* signing secret and whether it was live (1) or not (0).
Refresh ==
    /\ resp = NoResp
    /\ \E refreshToken \in RefreshInputs :
        \E out \in {refresh(DB, refreshToken)} :
            Reply("refresh", NoUser,
                  <<refreshToken.secret, IF refreshToken \in issued THEN 1 ELSE 0>>,
                  refreshToken.userId, refreshToken.expiresIn, out)

\* A token reaches the end of its lifetime: jwt.verify rejects it from now on.
Expire ==
    /\ resp = NoResp
    /\ \E token \in issued : issued' = issued \ {token}
    /\ UNCHANGED <<users, workspaces, workspace_members, projects,
                   project_members, tasks, task_assignments, notifications,
                   published, subscribers, user_devices, config, proc, pending,
                   resp>>

\* The users row is deleted outside the API (DELETE FROM users): rows that
\* reference it ON DELETE CASCADE go with it.  created_by has no cascade, so
\* the row of a user who created something cannot be deleted.
DeleteUser ==
    /\ resp = NoResp
    /\ workspaces = {} /\ projects = {} /\ tasks = {}
    /\ \E userId \in DOMAIN users :
        /\ users' = [u \in DOMAIN users \ {userId} |-> users[u]]
        /\ workspace_members' = {m \in workspace_members : m.user_id # userId}
        /\ project_members' = {m \in project_members : m.user_id # userId}
        /\ user_devices' = {d \in user_devices : d.user_id # userId}
        /\ notifications' = [k \in DOMAIN notifications |->
                                IF k[1] = userId THEN 0 ELSE notifications[k]]
    /\ UNCHANGED <<workspaces, projects, tasks, task_assignments, published,
                   subscribers, issued, config, proc, pending, resp>>

NextSession ==
    \/ Login
    \/ Logout
    \/ Refresh
    \/ BanUser
    \/ UnbanUser
    \/ DeleteUser
    \/ Deliver

SpecSession == InitSession /\ [][NextSession]_vars

\* The life of a refresh token: handed out, presented, expired, its user
\* banned or deleted.
NextRefresh ==
    \/ Login
    \/ Refresh
    \/ BanUser
    \/ DeleteUser
    \/ Expire
    \/ Deliver

SpecRefresh == InitSession /\ [][NextRefresh]_vars

\* ------------------------------------------------- the device store alone
\* req.ip and the user-agent header of a login.
Origins == {"10.0.0.1", "10.0.0.2"}
UserAgents == {"curl", "firefox"}

\* What NOW() can return: no earlier than any stored time.
Clock(db) == {t \in 0..MaxClock : t >= Latest(db)}

\* What the row of a pair looks like to a caller about to touch it.
RowState(db, userId, deviceId) ==
    LET rows == DeviceRows(db, userId, deviceId) IN
    IF rows = {} THEN "no row"
    ELSE IF (CHOOSE d \in rows : TRUE).is_revoked THEN "revoked" ELSE "live"

InitDevices == InitSession /\ config = DefaultConfig

\* A call of one of the three functions returns: entity and target are the
\* pair, value is the state of its row before the call.
Return(op, userId, deviceId, result, db) ==
    Reply(op, NoUser, deviceId, userId, RowState(DB, userId, deviceId),
          [result |-> result, db |-> db, tokens |-> {}])

SaveDevice ==
    /\ resp = NoResp
    /\ \E userId \in DOMAIN users, deviceId \in DeviceIds,
          ipAddress \in Origins, userAgent \in UserAgents, now \in Clock(DB) :
        \E db \in {saveDevice(DB, userId, deviceId, ipAddress, userAgent, now)} :
            /\ Cardinality(db.user_devices) <= MaxDevices
            /\ Return("saveDevice", userId, deviceId, Ok, db)

RevokeDevice ==
    /\ resp = NoResp
    /\ \E userId \in DOMAIN users, deviceId \in DeviceIds, now \in Clock(DB) :
        Return("revokeDevice", userId, deviceId, Ok,
               revokeDevice(DB, userId, deviceId, now))

IsDeviceRevoked ==
    /\ resp = NoResp
    /\ \E userId \in DOMAIN users, deviceId \in DeviceIds :
        Return("isDeviceRevoked", userId, deviceId,
               IF isDeviceRevoked(DB, userId, deviceId)
               THEN <<"true", "">> ELSE <<"false", "">>,
               DB)

NextDevices ==
    \/ SaveDevice
    \/ RevokeDevice
    \/ IsDeviceRevoked
    \/ Deliver

SpecDevices == InitDevices /\ [][NextDevices]_vars

\* ------------------------------------------------------ task status events
\* Two workspaces exist: u1 owns the first, where u2 is a Viewer, and leads
\* its project, where u2 is a Contributor and the one task is TODO; u3 owns
\* the second workspace.
InitEvents ==
    /\ users = InitStatus
    /\ workspaces = {<<"w", 1>>, <<"w", 0>>}
    /\ workspace_members =
           {[workspace_id |-> <<"w", 1>>, user_id |-> "u1", role |-> "Owner"],
            [workspace_id |-> <<"w", 1>>, user_id |-> "u2", role |-> "Viewer"],
            [workspace_id |-> <<"w", 0>>, user_id |-> "u3", role |-> "Owner"]}
    /\ projects = {[id |-> <<"p", 1>>, workspace_id |-> <<"w", 1>>]}
    /\ project_members =
           {[project_id |-> <<"p", 1>>, user_id |-> "u1", role |-> "Project Lead"],
            [project_id |-> <<"p", 1>>, user_id |-> "u2", role |-> "Contributor"]}
    /\ tasks = {[id |-> <<"t", 1>>, project_id |-> <<"p", 1>>, status |-> "TODO"]}
    /\ task_assignments = {}
    /\ notifications = [k \in UserIds \X TaskIds |-> 0]
    /\ published = <<>>
    /\ subscribers = {}
    /\ config = DefaultConfig
    /\ proc = Serving
    /\ user_devices = {DeviceRow(u, <<u, 0>>, "10.0.0.1", "curl", 0) :
                          u \in UserIds}
    /\ issued = {signAccess(u, InitStatus[u]) : u \in UserIds}
    /\ pending = NoPending
    /\ resp = NoResp

NextEvents ==
    \/ UpdateTask
    \/ TaskStatusUpdated
    \/ Deliver

SpecEvents == InitEvents /\ [][NextEvents]_vars

\* --------------------------------------------- check and write, two awaits
\* addWorkspaceMember statement by statement: checkWorkspaceOwnership has been
\* awaited and passed, the INSERT has not run yet, and the server serves
\* other requests in between.  A check that fails answers at once.
AddWorkspaceMemberCheck ==
    /\ resp = NoResp
    /\ pending = NoPending
    /\ \E token \in Bearers, workspaceId \in WorkspaceIds, userId \in UserIds :
        \E ctx \in {getContext(DB, token)} :
            IF ctx.userId # NoUser
               /\ checkWorkspaceOwnership(DB, ctx.userId, workspaceId)
            THEN /\ pending' = [op |-> "addWorkspaceMember",
                                caller |-> ctx.userId, id |-> workspaceId,
                                target |-> userId]
                 /\ UNCHANGED <<users, workspaces, workspace_members, projects,
                                project_members, tasks, task_assignments,
                                notifications, published, subscribers,
                                user_devices, issued, config, proc, resp>>
            ELSE Commit("addWorkspaceMember", ctx, workspaceId, userId, "",
                        addWorkspaceMember(DB, ctx, workspaceId, userId))

AddWorkspaceMemberInsert ==
    /\ resp = NoResp
    /\ pending.op = "addWorkspaceMember"
    /\ Answer("addWorkspaceMember", [userId |-> pending.caller], pending.id,
              pending.target, "",
              insertWorkspaceMember(DB, [userId |-> pending.caller], pending.id,
                                    pending.target))
    /\ pending' = NoPending

NextRace ==
    \/ CreateWorkspace
    \/ UpdateWorkspaceMemberRole
    \/ RemoveWorkspaceMember
    \/ AddWorkspaceMemberCheck
    \/ AddWorkspaceMemberInsert
    \/ Deliver

SpecRace == Init /\ [][NextRace]_vars

\* ------------------------------------------------------------ utils/logger
\* Variant: the failed INSERT INTO audit_logs is thrown on to the resolver.
log_rethrow(out, insertFails) ==
    IF insertFails /\ out.result = Ok
    THEN [out EXCEPT !.result = InternalError]
    ELSE out

\* log(level, message, details) at the end of a resolver that succeeded:
\* try { await query(INSERT INTO audit_logs ...) } catch { console.error }.
\* insertFails: the INSERT throws.  The resolver's outcome is what it was.
log(out, insertFails) == out

\* The resolvers with their logger.info call; value tells whether the
\* audit_logs INSERT failed.
AddWorkspaceMemberLogged ==
    /\ resp = NoResp
    /\ \E token \in Bearers, workspaceId \in WorkspaceIds, userId \in UserIds,
          insertFails \in BOOLEAN :
        \E ctx \in {getContext(DB, token)} :
            \E out \in {log(addWorkspaceMember(DB, ctx, workspaceId, userId),
                            insertFails)} :
                Commit("addWorkspaceMember", ctx, workspaceId, userId,
                       IF insertFails THEN "audit_logs insert failed" ELSE "",
                       out)

RemoveWorkspaceMemberLogged ==
    /\ resp = NoResp
    /\ \E token \in Bearers, workspaceId \in WorkspaceIds, userId \in UserIds,
          insertFails \in BOOLEAN :
        \E ctx \in {getContext(DB, token)} :
            \E out \in {log(removeWorkspaceMember(DB, ctx, workspaceId, userId),
                            insertFails)} :
                Commit("removeWorkspaceMember", ctx, workspaceId, userId,
                       IF insertFails THEN "audit_logs insert failed" ELSE "",
                       out)

NextAudit ==
    \/ CreateWorkspace
    \/ AddWorkspaceMemberLogged
    \/ RemoveWorkspaceMemberLogged
    \/ Deliver

SpecAudit == Init /\ [][NextAudit]_vars

\* ---------------------------------------------------------------------
\* The process: startServer() and gracefulShutdown() of src/index.ts.
\* A request in flight is a response not yet sent (resp) or a resolver
\* suspended between two statements (pending).

\* The process as node starts it: nothing await-ed yet, no handler registered.
Starting == [phase |-> "starting", pool |-> "open", apollo |-> "stopped",
             timer |-> FALSE, signal |-> FALSE, exit |-> "running"]

InitShutdown ==
    /\ users = InitStatus
    /\ workspaces = {}
    /\ workspace_members = {}
    /\ projects = {}
    /\ project_members = {}
    /\ tasks = {}
    /\ task_assignments = {}
    /\ notifications = [k \in UserIds \X TaskIds |-> 0]
    /\ published = <<>>
    /\ subscribers = {}
    /\ config = DefaultConfig
    /\ proc = Starting
    /\ user_devices = {DeviceRow(u, <<u, 0>>, "10.0.0.1", "curl", 0) :
                          u \in UserIds}
    /\ issued = {signAccess(u, InitStatus[u]) : u \in UserIds}
    /\ pending = NoPending
    /\ resp = NoResp

\* Everything but the process.
store == <<users, workspaces, workspace_members, projects, project_members,
           tasks, task_assignments, notifications, published, subscribers,
           user_devices, issued, config, pending, resp>>

\* gracefulShutdown without its setTimeout.
gracefulShutdown_noTimer(p) ==
    [p EXCEPT !.phase = IF @ = "listening" THEN "closing" ELSE @,
              !.signal = TRUE]

\* gracefulShutdown(signal): server.close(callback) stops the listening and
\* keeps the callback for the moment the last connection ends; setTimeout
\* arms the forced exit.  A repeated call finds the server already closing.
gracefulShutdown(p) ==
    [p EXCEPT !.phase = IF @ = "listening" THEN "closing" ELSE @,
              !.timer = TRUE,
              !.signal = TRUE]

\* startServer() runs to its return: pool.query answers, Apollo starts,
\* app.listen, then process.on('SIGTERM' | 'SIGINT', ...).
StartServer ==
    /\ proc.exit = "running"
    /\ proc.phase = "starting"
    /\ proc' = Serving
    /\ UNCHANGED store

\* startServer() throws before it listens: catch, process.exit(1).
StartServerFails ==
    /\ proc.exit = "running"
    /\ proc.phase = "starting"
    /\ proc' = [proc EXCEPT !.exit = "1"]
    /\ UNCHANGED store

\* SIGTERM or SIGINT reaches the process.  With no handler registered the
\* default disposition ends the process at once, its exit status the signal.
Signal ==
    /\ proc.exit = "running"
    /\ proc' = IF proc.phase = "starting"
                 THEN [proc EXCEPT !.signal = TRUE, !.exit = "signal"]
                 ELSE gracefulShutdown(proc)
    /\ UNCHANGED store

\* The HTTP server takes requests while it listens.
Accepting == proc.exit = "running" /\ proc.phase = "listening"

\* A response leaves while the process runs, listening or closing.
Drain == proc.exit = "running" /\ Deliver

\* The callback of server.close: the last connection has ended;
\* await closePool().
CloseCallback ==
    /\ proc.exit = "running"
    /\ proc.phase = "closing"
    /\ resp = NoResp
    /\ pending = NoPending
    /\ proc' = [proc EXCEPT !.phase = "closed", !.pool = "closed"]
    /\ UNCHANGED store

\* closePool() or apolloServer.stop() rejects: the callback ends there, the
\* 'unhandledRejection' handler logs, process.exit(0) is never reached.
CallbackRejects ==
    /\ proc.exit = "running"
    /\ \/ proc.phase = "closing" /\ resp = NoResp /\ pending = NoPending
       \/ proc.phase = "closed" /\ proc.apollo = "started"
    /\ proc' = [proc EXCEPT !.phase = "failed"]
    /\ UNCHANGED store

\* await apolloServer.stop().
StopApollo ==
    /\ proc.exit = "running"
    /\ proc.phase = "closed"
    /\ proc.apollo = "started"
    /\ proc' = [proc EXCEPT !.apollo = "stopped"]
    /\ UNCHANGED store

\* process.exit(0), the last statement of the callback.
ExitClean ==
    /\ proc.exit = "running"
    /\ proc.phase = "closed"
    /\ proc.apollo = "stopped"
    /\ proc' = [proc EXCEPT !.exit = "0"]
    /\ UNCHANGED store

\* The setTimeout of gracefulShutdown fires: process.exit(1).
ForceExit ==
    /\ proc.exit = "running"
    /\ proc.timer
    /\ proc' = [proc EXCEPT !.exit = "1"]
    /\ UNCHANGED store

NextShutdown ==
    \/ StartServer
    \/ StartServerFails
    \/ Signal
    \/ Accepting /\ CreateWorkspace
    \/ Accepting /\ AddWorkspaceMember
    \/ Accepting /\ RemoveWorkspaceMember
    \/ Drain
    \/ CloseCallback
    \/ CallbackRejects
    \/ StopApollo
    \/ ExitClean
    \/ ForceExit

\* A timer of a running node process fires once its delay has passed.
SpecShutdown == InitShutdown /\ [][NextShutdown]_vars /\ WF_vars(ForceExit)

\* ---------------------------------------------------------------------
\* Two workspaces side by side.  An older workspace, with its project and
\* its members, exists before the requests of the run create the next one.
InitIsolation ==
    /\ users = InitStatus
    /\ workspaces = {<<"w", 0>>}
    /\ workspace_members =
           {[workspace_id |-> <<"w", 0>>, user_id |-> "u3", role |-> "Owner"],
            [workspace_id |-> <<"w", 0>>, user_id |-> "u2", role |-> "Viewer"]}
    /\ projects = {[id |-> <<"p", 0>>, workspace_id |-> <<"w", 0>>]}
    /\ project_members =
           {[project_id |-> <<"p", 0>>, user_id |-> "u3", role |-> "Project Lead"]}
    /\ tasks = {}
    /\ task_assignments = {}
    /\ notifications = [k \in UserIds \X TaskIds |-> 0]
    /\ published = <<>>
    /\ subscribers = {}
    /\ config = DefaultConfig
    /\ proc = Serving
    /\ user_devices = {DeviceRow(u, <<u, 0>>, "10.0.0.1", "curl", 0) :
                          u \in UserIds}
    /\ issued = {signAccess(u, InitStatus[u]) : u \in UserIds}
    /\ pending = NoPending
    /\ resp = NoResp

NextIsolation ==
    \/ CreateWorkspace
    \/ AddWorkspaceMember
    \/ RemoveWorkspaceMember
    \/ UpdateWorkspaceMemberRole
    \/ CreateProject
    \/ DeleteProject
    \/ AddProjectMember
    \/ RemoveProjectMember
    \/ Deliver

SpecIsolation == InitIsolation /\ [][NextIsolation]_vars

\* ---------------------------------------------------------------------
\* Assignments.  assignedToIds is a list of strings the client chooses: ids
\* of users and ids no users row has.
UnknownUser == "nobody"
AnyAssigneeLists ==
    UNION {[1..n -> UserIds \cup {UnknownUser}] : n \in 0..MaxAssignees}

UpdateTaskAssignees ==
    /\ resp = NoResp
    /\ \E token \in Bearers, id \in TaskIds,
       status \in TaskStatuses \cup {Undefined}, ids \in AnyAssigneeLists :
        \E ctx \in {getContext(DB, token)} :
            \E out \in {updateTask(DB, ctx, id, FALSE, status,
                                   [given |-> TRUE, ids |-> ids])} :
                Commit("updateTask", ctx, id, NoUser, status, out)

NextAssign ==
    \/ CreateTask
    \/ UpdateTaskAssignees
    \/ DeleteTask
    \/ Deliver

SpecAssign == InitEvents /\ [][NextAssign]_vars

\* Workspace and project membership: the authorization engine at work.
Next ==
    \/ GetWorkspace
    \/ CreateWorkspace
    \/ AddWorkspaceMember
    \/ RemoveWorkspaceMember
    \/ UpdateWorkspaceMemberRole
    \/ GetProject
    \/ CreateProject
    \/ UpdateProject
    \/ DeleteProject
    \/ AddProjectMember
    \/ RemoveProjectMember
    \/ UpdateProjectMemberRole
    \/ Deliver

Spec == Init /\ [][Next]_vars

\* The admin track next to the role hierarchy: global_status changes while
\* users hold workspace and project roles.
NextAdmin ==
    \/ BanUser
    \/ UnbanUser
    \/ AdminResetPassword
    \/ GetAllWorkspaces
    \/ GetWorkspace
    \/ CreateWorkspace
    \/ AddWorkspaceMember
    \/ CreateProject
    \/ CreateTask
    \/ GetTask
    \/ Deliver

SpecAdmin == Init /\ [][NextAdmin]_vars

\* Tasks under a project whose creator moves through every project role.
NextTasks ==
    \/ CreateWorkspace
    \/ CreateProject
    \/ UpdateProjectMemberRole
    \/ GetTask
    \/ CreateTask
    \/ UpdateTask
    \/ DeleteTask
    \/ SummarizeTask
    \/ GenerateTasksFromPrompt
    \/ Deliver

SpecTasks == InitTasks /\ [][NextTasks]_vars

\* ================================================================ claims
\* Rows of the current store, as the claims speak of them.
WorkspaceRoleOf(u, w) ==
    {m.role : m \in {x \in workspace_members : x.workspace_id = w /\ x.user_id = u}}
ProjectRoleOf(u, p) ==
    {m.role : m \in {x \in project_members : x.project_id = p /\ x.user_id = u}}
ParentOf(p) == {x.workspace_id : x \in {y \in projects : y.id = p}}
ProjectExists(p) == ParentOf(p) # {}
OwnsParentOf(u, p) == \E w \in ParentOf(p) : "Owner" \in WorkspaceRoleOf(u, w)
MemberOfParentOf(u, p) == \E w \in ParentOf(p) : WorkspaceRoleOf(u, w) # {}

WorkspaceLevel(r) == CASE r = "Owner" -> 3 [] r = "Member" -> 2 [] r = "Viewer" -> 1
ProjectLevel(r) ==
    CASE r = "Project Lead" -> 3 [] r = "Contributor" -> 2 [] r = "Project Viewer" -> 1

\* C2: for every workspace_members row (W, user, r) and every minimumRole m,
\* checkWorkspaceAccess(user, W, m) returns role = r and hasAccess = TRUE
\* exactly when level(r) >= level(m), with Owner = 3, Member = 2, Viewer = 1.
C2_WorkspaceAccessFollowsHierarchy ==
    \A row \in workspace_members : \A m \in WorkspaceRoles :
        checkWorkspaceAccess(DB, row.user_id, row.workspace_id, m) =
            [hasAccess |-> WorkspaceLevel(row.role) >= WorkspaceLevel(m),
             role |-> row.role]

\* A Member has just passed createProject's check against minimumRole Member.
C2_Witness ==
    /\ resp.op = "createProject"
    /\ resp.result = Ok
    /\ \E w \in ParentOf(resp.entity) : WorkspaceRoleOf(resp.caller, w) = {"Member"}

\* C3: a user with no workspace_members row for W gets hasAccess = FALSE and
\* no role from checkWorkspaceAccess for every minimumRole, and
\* requireWorkspaceAccess fails, whatever the user's global status and
\* project memberships.
C3_NonMemberAlwaysFails ==
    \A u \in UserIds, w \in WorkspaceIds, m \in WorkspaceRoles :
        WorkspaceRoleOf(u, w) = {} =>
            /\ checkWorkspaceAccess(DB, u, w, m) =
                   [hasAccess |-> FALSE, role |-> "undefined"]
            /\ requireWorkspaceAccess(DB, u, w, m) = InsufficientPermissions(m)

\* An ADMIN who still leads a project of the workspace but has lost the
\* workspace membership has just been refused by getWorkspace.
C3_Witness ==
    /\ resp.op = "getWorkspace"
    /\ resp.result = InsufficientPermissions("Viewer")
    /\ resp.caller \in UserIds
    /\ users[resp.caller] = "ADMIN"
    /\ WorkspaceRoleOf(resp.caller, resp.entity) = {}
    /\ \E p \in projects :
           /\ p.workspace_id = resp.entity
           /\ ProjectRoleOf(resp.caller, p.id) = {"Project Lead"}

AllOwners ==
    {[workspace_id |-> w, user_id |-> u, role |-> "Owner"] :
        w \in WorkspaceIds, u \in UserIds}

\* C4: checkProjectAccess(user, P, m) returns hasAccess = FALSE and no role
\* without a project_members row, and role = r with hasAccess = (level(r) >=
\* level(m)) for a row of role r, Project Lead = 3, Contributor = 2, Project
\* Viewer = 1; the result is the same whatever workspace_members holds.
C4_ProjectAccessIsTheTwin ==
    \A u \in UserIds, p \in ProjectIds, m \in ProjectRoles :
        \E got \in {checkProjectAccess(DB, u, p, m)} :
            /\ ProjectRoleOf(u, p) = {} =>
                   got = [hasAccess |-> FALSE, role |-> "undefined"]
            /\ \A r \in ProjectRoleOf(u, p) :
                   got = [hasAccess |-> ProjectLevel(r) >= ProjectLevel(m), role |-> r]
            \* the store is the same while a response is being sent
            /\ resp = NoResp =>
                   \A others \in {{}, AllOwners} :
                       checkProjectAccess([DB EXCEPT !.workspace_members = others],
                                          u, p, m) = got

\* The Owner of the project's workspace, holding no project row, has just
\* been refused by getProject.
C4_Witness ==
    /\ resp.op = "getProject"
    /\ resp.result = InsufficientPermissions("Project Viewer")
    /\ OwnsParentOf(resp.caller, resp.entity)
    /\ ProjectRoleOf(resp.caller, resp.entity) = {}

\* C5: an Owner of workspace W with no project_members row on a project P of
\* W succeeds with addProjectMember and removeProjectMember on P for a target
\* that is a member of W: the target then has, or no longer has, a row on P.
C5_OwnerManagesProjectMembers ==
    [][(/\ resp'.op \in {"addProjectMember", "removeProjectMember"}
        /\ ProjectExists(resp'.entity)
        /\ OwnsParentOf(resp'.caller, resp'.entity)
        /\ ProjectRoleOf(resp'.caller, resp'.entity) = {}
        /\ MemberOfParentOf(resp'.target, resp'.entity))
       => /\ resp'.result = Ok
          /\ resp'.op = "addProjectMember" =>
                 (ProjectRoleOf(resp.target, resp.entity) # {})'
          /\ resp'.op = "removeProjectMember" =>
                 (ProjectRoleOf(resp.target, resp.entity) = {})']_vars

\* The Owner, with no row on the project, has just added another workspace
\* member, who is now Contributor.
C5_Witness ==
    /\ resp.op = "addProjectMember"
    /\ resp.result = Ok
    /\ OwnsParentOf(resp.caller, resp.entity)
    /\ ProjectRoleOf(resp.caller, resp.entity) = {}
    /\ resp.target # resp.caller
    /\ ProjectRoleOf(resp.target, resp.entity) = {"Contributor"}

\* C6: an Owner of workspace W who is not Project Lead of project P in W
\* succeeds with updateProjectMemberRole on P, and a target that is a member
\* of P then holds the role given.
C6_OwnerUpdatesProjectMemberRole ==
    [][(/\ resp'.op = "updateProjectMemberRole"
        /\ resp'.value \in ProjectRoles
        /\ ProjectExists(resp'.entity)
        /\ OwnsParentOf(resp'.caller, resp'.entity)
        /\ "Project Lead" \notin ProjectRoleOf(resp'.caller, resp'.entity))
       => /\ resp'.result = Ok
          /\ ProjectRoleOf(resp'.target, resp'.entity) # {} =>
                 (ProjectRoleOf(resp.target, resp.entity) = {resp.value})']_vars

LeadsProjectIn(u, w) ==
    \E p \in projects : p.workspace_id = w /\ "Project Lead" \in ProjectRoleOf(u, p.id)

WorkspaceMemberOps ==
    {"addWorkspaceMember", "removeWorkspaceMember", "updateWorkspaceMemberRole"}

\* C7: a caller who is Project Lead of a project in workspace W and whose
\* role in W is not Owner is rejected by addWorkspaceMember,
\* removeWorkspaceMember and updateWorkspaceMemberRole on W with the
\* owner-required error, and workspace_members is unchanged.
C7_LeadHasNoWorkspaceAuthority ==
    [][(/\ resp'.op \in WorkspaceMemberOps
        /\ LeadsProjectIn(resp'.caller, resp'.entity)
        /\ "Owner" \notin WorkspaceRoleOf(resp'.caller, resp'.entity))
       => /\ resp'.result = ForbiddenOwner
          /\ workspace_members' = workspace_members]_vars

\* A Project Lead who is a Member of the workspace has just been refused a
\* change of a workspace member's role.
C7_Witness ==
    /\ resp.op = "updateWorkspaceMemberRole"
    /\ resp.result = ForbiddenOwner
    /\ LeadsProjectIn(resp.caller, resp.entity)
    /\ WorkspaceRoleOf(resp.caller, resp.entity) = {"Member"}

\* C8 as stated: addProjectMember(P, target) for a target with no membership
\* in P's parent workspace fails with PreconditionFailed and creates no row,
\* the same for every authenticated caller.
C8_SameForEveryCaller ==
    [][(/\ resp'.op = "addProjectMember"
        /\ resp'.caller \in UserIds
        /\ ProjectExists(resp'.entity)
        /\ ~MemberOfParentOf(resp'.target, resp'.entity))
       => /\ resp'.result = PreconditionFailed
          /\ project_members' = project_members]_vars

\* C8 amended: for such a target no project_members row is created whoever
\* calls; the call fails with PreconditionFailed when the caller is Project
\* Lead of P or Owner of P's parent workspace, and with the
\* insufficient-permissions error for every other authenticated caller.
C8_PreconditionAfterPermission ==
    [][(/\ resp'.op = "addProjectMember"
        /\ resp'.caller \in UserIds
        /\ ProjectExists(resp'.entity)
        /\ ~MemberOfParentOf(resp'.target, resp'.entity))
       => /\ project_members' = project_members
          /\ resp'.result =
                 IF \/ "Project Lead" \in ProjectRoleOf(resp'.caller, resp'.entity)
                    \/ OwnsParentOf(resp'.caller, resp'.entity)
                 THEN PreconditionFailed
                 ELSE ForbiddenLeadOrOwner]_vars

\* An authorized caller has just been refused for a target outside the
\* workspace, and the target has no row on the project.
C8_Witness ==
    /\ resp.op = "addProjectMember"
    /\ resp.result = PreconditionFailed
    /\ ProjectExists(resp.entity)
    /\ ~MemberOfParentOf(resp.target, resp.entity)
    /\ ProjectRoleOf(resp.target, resp.entity) = {}

RoleCheckErrors ==
    {ForbiddenOwner, ForbiddenLead, ForbiddenLeadOrOwner} \cup
    {InsufficientPermissions(r) : r \in WorkspaceRoles \cup ProjectRoles}

\* What each workspace-, project- and task-scoped mutation would answer to a
\* request with this bearer, over all arguments.
ScopedMutationOutcomes(token) ==
    LET ctx == getContext(DB, token) IN
    {addWorkspaceMember(DB, ctx, w, u) : w \in WorkspaceIds, u \in UserIds}
    \cup {removeWorkspaceMember(DB, ctx, w, u) : w \in WorkspaceIds, u \in UserIds}
    \cup {updateWorkspaceMemberRole(DB, ctx, w[1], w[2], r) :
            w \in WorkspaceIds \X UserIds, r \in WorkspaceRoleInputs}
    \cup {createProject(DB, ctx, w, p) : w \in WorkspaceIds, p \in ProjectIds}
    \cup {updateProject(DB, ctx, p) : p \in ProjectIds}
    \cup {deleteProject(DB, ctx, p) : p \in ProjectIds}
    \cup {addProjectMember(DB, ctx, p, u) : p \in ProjectIds, u \in UserIds}
    \cup {removeProjectMember(DB, ctx, p, u) : p \in ProjectIds, u \in UserIds}
    \cup {updateProjectMemberRole(DB, ctx, p[1], p[2], r) :
            p \in ProjectIds \X UserIds, r \in ProjectRoleInputs}
    \cup {createTask(DB, ctx, p, a[1], a[2]) :
            p \in ProjectIds, a \in AssigneeInputs \X TaskIds}
    \cup {updateTask(DB, ctx, a[1], a[2], a[3], a[4]) :
            a \in TaskIds \X BOOLEAN \X (TaskStatuses \cup {Undefined})
                  \X AssigneeInputs}
    \cup {deleteTask(DB, ctx, t) : t \in TaskIds}
    \cup UNION {{generateTasksFromPrompt(DB, ctx, p, a, ids) :
                    ids \in FreshIds(TaskIds, {t.id : t \in tasks}, Len(a.items))}
                : p \in ProjectIds, a \in AiAnswers}

\* C9: a scoped mutation whose caller fails the operation's role check fails
\* without writing: the store it leaves is the store it found, row for row
\* in every table, and it publishes nothing.
C9_GuardBeforeAnyWrite ==
    resp = NoResp =>
        \A token \in Bearers : \A out \in ScopedMutationOutcomes(token) :
            out.result \in RoleCheckErrors => out.db = DB /\ out.pub = <<>>

\* A Project Viewer has just been refused by updateTask on a task of the
\* project.
C9_Witness ==
    /\ resp.op = "updateTask"
    /\ resp.result = InsufficientPermissions("Contributor")
    /\ \E t \in tasks :
           t.id = resp.entity /\ ProjectRoleOf(resp.caller, t.project_id) = {"Project Viewer"}

AdminOps == {"banUser", "unbanUser", "adminResetPassword", "getAllWorkspaces"}

\* C10: banUser, unbanUser, adminResetPassword and getAllWorkspaces succeed
\* exactly when the caller's stored global_status is ADMIN at the call; any
\* other identified caller is rejected with the admin-required error and no
\* user row changes, whatever roles the caller holds.
C10_AdminOnlyByStoredStatus ==
    [][(resp'.op \in AdminOps /\ resp'.caller \in UserIds)
       => IF users[resp'.caller] = "ADMIN"
          THEN resp'.result = Ok
          ELSE resp'.result = ForbiddenAdmin /\ users' = users]_vars

\* A workspace Owner whose token still says ADMIN, but whose stored status
\* is no longer ADMIN, has just been refused an admin operation.
C10_Witness ==
    /\ resp.op \in AdminOps
    /\ resp.result = ForbiddenAdmin
    /\ resp.caller \in UserIds
    /\ users[resp.caller] # "ADMIN"
    /\ signAccess(resp.caller, "ADMIN") \in issued
    /\ \E w \in workspaces : WorkspaceRoleOf(resp.caller, w) = {"Owner"}

\* C1: every operation invoked with the valid, unexpired access token of a
\* user whose global_status is BANNED is rejected (the contract says with
\* Forbidden; any refusal is accepted here) and changes no state.
C1_BannedIsAlwaysForbidden ==
    [][(/\ resp'.op # "none"
        /\ resp'.caller \in UserIds
        /\ users[resp'.caller] = "BANNED")
       => /\ resp'.result # Ok
          /\ UNCHANGED <<users, workspaces, workspace_members, projects,
                         project_members, tasks, task_assignments,
                         notifications, published, user_devices>>]_vars

PermissionErrors == RoleCheckErrors \cup {ForbiddenTask}

\* What each operation scoped to workspace w answers to this caller, over
\* all its other arguments.
WorkspaceScopedOutcomes(ctx, w) ==
    {getWorkspace(DB, ctx, w), taskStatusUpdated(DB, ctx, w)}
    \cup {createProject(DB, ctx, w, p) : p \in ProjectIds}
    \cup {addWorkspaceMember(DB, ctx, w, u) : u \in UserIds}
    \cup {removeWorkspaceMember(DB, ctx, w, u) : u \in UserIds}
    \cup {updateWorkspaceMemberRole(DB, ctx, w, u, r) :
            u \in UserIds, r \in WorkspaceRoleInputs}

\* What each operation scoped to project p, or to a task of p, answers to
\* this caller.
ProjectScopedOutcomes(ctx, p) ==
    {getProject(DB, ctx, p), updateProject(DB, ctx, p), deleteProject(DB, ctx, p)}
    \cup {addProjectMember(DB, ctx, p, u) : u \in UserIds}
    \cup {removeProjectMember(DB, ctx, p, u) : u \in UserIds}
    \cup {updateProjectMemberRole(DB, ctx, p, u, r) :
            u \in UserIds, r \in ProjectRoleInputs}
    \cup {createTask(DB, ctx, p, a, t) : a \in AssigneeInputs, t \in TaskIds}
    \cup UNION {{getTask(DB, ctx, t.id), deleteTask(DB, ctx, t.id)}
                \cup {updateTask(DB, ctx, t.id, a[1], a[2], a[3]) :
                        a \in BOOLEAN \X (TaskStatuses \cup {Undefined})
                              \X AssigneeInputs}
                : t \in {x \in tasks : x.project_id = p}}

\* C11: a user whose global_status is ADMIN and who has no membership row in
\* workspace W is refused, with a permission error and no write, by every
\* operation scoped to W (the subscription included); with no row in project
\* P nor in P's workspace, by every operation scoped to P or to a task of P.
C11_AdminIsNoOverride ==
    resp = NoResp =>
        \A token \in issued :
            \A ctx \in {getContext(DB, token)} :
                users[ctx.userId] = "ADMIN" =>
                    /\ \A w \in WorkspaceIds :
                          WorkspaceRoleOf(ctx.userId, w) = {} =>
                              \A out \in WorkspaceScopedOutcomes(ctx, w) :
                                  out.result \in PermissionErrors /\ out.db = DB
                    /\ \A p \in projects :
                          (/\ ProjectRoleOf(ctx.userId, p.id) = {}
                           /\ WorkspaceRoleOf(ctx.userId, p.workspace_id) = {}) =>
                              \A out \in ProjectScopedOutcomes(ctx, p.id) :
                                  out.result \in PermissionErrors /\ out.db = DB

\* An ADMIN with no row in the project or its workspace has just been
\* refused getTask on a task of that project.
C11_Witness ==
    /\ resp.op = "getTask"
    /\ resp.result = ForbiddenTask
    /\ resp.caller \in UserIds
    /\ users[resp.caller] = "ADMIN"
    /\ \E t \in tasks :
           /\ t.id = resp.entity
           /\ ProjectRoleOf(resp.caller, t.project_id) = {}
           /\ ~MemberOfParentOf(resp.caller, t.project_id)

\* C12: a request that carries no resolved caller identity is never served:
\* every mutation, query and subscription, register and forgotPassword
\* excepted, refuses it and writes nothing (the contract says with
\* Unauthorized, before any call to the AI collaborator; any refusal is
\* accepted here).
C12_NoIdentityNoService ==
    [][(/\ resp'.op \notin {"none", "register", "forgotPassword"}
        /\ resp'.caller = NoUser)
       => /\ resp'.result # Ok
          /\ UNCHANGED <<users, workspaces, workspace_members, projects,
                         project_members, tasks, task_assignments,
                         notifications, published, user_devices>>]_vars

\* Ids that name no row: outside the pools the store generates ids from.
AbsentTask == <<"t", 0>>
AbsentProject == <<"p", 0>>

NoAccessTo(u, p) == ProjectRoleOf(u, p) = {} /\ ~MemberOfParentOf(u, p)

\* C13: for an authenticated caller with no access, getTask, updateTask and
\* deleteTask answer the same for a task that exists and for one that does
\* not, and addProjectMember and removeProjectMember the same for a project
\* that exists and for one that does not.
C13_NoExistenceOracle ==
    resp = NoResp =>
        \A token \in issued :
            \A ctx \in {getContext(DB, token)} :
                /\ \A t \in tasks :
                      NoAccessTo(ctx.userId, t.project_id) =>
                          /\ getTask(DB, ctx, t.id).result
                                 = getTask(DB, ctx, AbsentTask).result
                          /\ deleteTask(DB, ctx, t.id).result
                                 = deleteTask(DB, ctx, AbsentTask).result
                          /\ \A a \in BOOLEAN \X (TaskStatuses \cup {Undefined})
                                      \X AssigneeInputs :
                                 updateTask(DB, ctx, t.id, a[1], a[2], a[3]).result
                                     = updateTask(DB, ctx, AbsentTask, a[1], a[2], a[3]).result
                /\ \A p \in projects :
                      NoAccessTo(ctx.userId, p.id) =>
                          \A u \in UserIds :
                              /\ addProjectMember(DB, ctx, p.id, u).result
                                     = addProjectMember(DB, ctx, AbsentProject, u).result
                              /\ removeProjectMember(DB, ctx, p.id, u).result
                                     = removeProjectMember(DB, ctx, AbsentProject, u).result

\* The steps of the end-to-end sequence, each from the state the one before
\* it leaves.  A is the caller, B the target.
CreatorOwnsWorkspace ==
    (resp'.op = "createWorkspace" /\ resp'.result = Ok)
        => (WorkspaceRoleOf(resp.caller, resp.entity) = {"Owner"})'

OwnerLeadsCreatedProject ==
    (/\ resp'.op = "createProject" /\ resp'.result = Ok
     /\ \E w \in workspaces : "Owner" \in WorkspaceRoleOf(resp'.caller, w))
        => (ProjectRoleOf(resp.caller, resp.entity) = {"Project Lead"})'

OwnerAndLead(u, p) == OwnsParentOf(u, p) /\ "Project Lead" \in ProjectRoleOf(u, p)

OutsiderIsRefused ==
    (/\ resp'.op = "addProjectMember"
     /\ OwnerAndLead(resp'.caller, resp'.entity)
     /\ ~MemberOfParentOf(resp'.target, resp'.entity))
        => resp'.result = PreconditionFailed /\ project_members' = project_members

RetrySucceeds ==
    (/\ resp'.op = "addProjectMember"
     /\ OwnerAndLead(resp'.caller, resp'.entity)
     /\ MemberOfParentOf(resp'.target, resp'.entity)
     /\ ProjectRoleOf(resp'.target, resp'.entity) = {})
        => /\ resp'.result = Ok
           /\ (ProjectRoleOf(resp.target, resp.entity) = {"Contributor"})'

\* addWorkspaceMember by the Owner for a user outside the workspace.
OwnerAddsOutsider ==
    /\ resp'.op = "addWorkspaceMember"
    /\ "Owner" \in WorkspaceRoleOf(resp'.caller, resp'.entity)
    /\ WorkspaceRoleOf(resp'.target, resp'.entity) = {}

\* C14 as stated: A creates W and is Owner; A creates P and is Project Lead;
\* addProjectMember(P, B) fails with PreconditionFailed while B is outside W;
\* A's addWorkspaceMember makes B a Viewer of W; the retry then succeeds with
\* B as Contributor.
C14_AddedAsViewer ==
    [][/\ CreatorOwnsWorkspace
       /\ OwnerLeadsCreatedProject
       /\ OutsiderIsRefused
       /\ OwnerAddsOutsider =>
              /\ resp'.result = Ok
              /\ (WorkspaceRoleOf(resp.target, resp.entity) = {"Viewer"})'
       /\ RetrySucceeds]_vars

\* C14 amended: the same sequence, where A's addWorkspaceMember makes B a
\* Member of W and B becomes Viewer through A's
\* updateWorkspaceMemberRole(W, B, Viewer); the retry succeeds with B as
\* Contributor whichever role B holds in W.
C14_EndToEnd ==
    [][/\ CreatorOwnsWorkspace
       /\ OwnerLeadsCreatedProject
       /\ OutsiderIsRefused
       /\ OwnerAddsOutsider =>
              /\ resp'.result = Ok
              /\ (WorkspaceRoleOf(resp.target, resp.entity) = {"Member"})'
       /\ (/\ resp'.op = "updateWorkspaceMemberRole"
           /\ resp'.value = "Viewer"
           /\ "Owner" \in WorkspaceRoleOf(resp'.caller, resp'.entity)
           /\ resp'.target # resp'.caller
           /\ WorkspaceRoleOf(resp'.target, resp'.entity) # {}) =>
              /\ resp'.result = Ok
              /\ (WorkspaceRoleOf(resp.target, resp.entity) = {"Viewer"})'
       /\ RetrySucceeds]_vars

\* A, Owner of W and Project Lead of P, has just added B, a Viewer of W, to
\* P, and B is Contributor.
C14_Witness ==
    /\ resp.op = "addProjectMember"
    /\ resp.result = Ok
    /\ OwnerAndLead(resp.caller, resp.entity)
    /\ resp.target # resp.caller
    /\ \E w \in ParentOf(resp.entity) : WorkspaceRoleOf(resp.target, w) = {"Viewer"}
    /\ ProjectRoleOf(resp.target, resp.entity) = {"Contributor"}

\* C15: in every observable state each existing workspace has exactly one
\* workspace_members row, with role Owner (createWorkspace is the only writer
\* of workspaces and workspace_members here).
C15_WorkspaceNeverWithoutOwner ==
    \A w \in workspaces :
        \E m \in workspace_members :
            /\ m.workspace_id = w /\ m.role = "Owner"
            /\ \A other \in workspace_members : other.workspace_id = w => other = m

\* C16: createProject is answered ok only to a caller with at least Member on
\* the project's workspace, and each existing project has exactly one
\* project_members row, with role Project Lead (createProject is the only
\* writer of projects and project_members here).
C16_ProjectNeverWithoutLead ==
    /\ (resp.op = "createProject" /\ resp.result = Ok) =>
           \E w \in ParentOf(resp.entity) :
               WorkspaceRoleOf(resp.caller, w) \subseteq {"Owner", "Member"}
               /\ WorkspaceRoleOf(resp.caller, w) # {}
    /\ \A p \in projects :
           \E m \in project_members :
               /\ m.project_id = p.id /\ m.role = "Project Lead"
               /\ \A other \in project_members : other.project_id = p.id => other = m

\* C17: in every configuration the server starts with, a token made by
\* generateRefreshToken is rejected by verifyAccessToken, by the GraphQL
\* context and by authenticate, and a token made by generateAccessToken is
\* rejected by verifyRefreshToken and by POST /auth/refresh.
C17_TokensNotInterchangeable ==
    \A token \in issued :
        /\ token.expiresIn = "7d" =>
               /\ ~verifyAccessToken(token)
               /\ getContext(DB, token).userId = NoUser
               /\ authenticate(DB, token) = 401
        /\ token.expiresIn = "15m" =>
               /\ ~verifyRefreshToken(token)
               /\ refresh(DB, token).result[1] = "401"

\* C18: a signed, unexpired access token whose user row has been deleted is
\* unauthenticated everywhere: authenticate answers 401 and the GraphQL
\* operations that require identity answer Unauthorized.
C18_DeletedUserIsUnauthenticated ==
    \A token \in issued :
        (verifyAccessToken(token) /\ token.userId \notin DOMAIN users) =>
            /\ authenticate(DB, token) = 401
            /\ \A userId \in UserIds :
                   /\ banUser(DB, getContext(DB, token), userId).result
                          = Unauthorized
                   /\ unbanUser(DB, getContext(DB, token), userId).result
                          = Unauthorized
            /\ \A newId \in WorkspaceIds :
                   createWorkspace(DB, getContext(DB, token), newId).result
                       = Unauthorized

\* C19: POST /auth/login answers 401 with the same body for an unknown email
\* and for a known email with a wrong password, 403 for a banned user, and
\* otherwise hands out an access token and a refresh token; a login answered
\* 401 or 403 writes no user_devices row and issues no token.
C19_LoginAnswers ==
    [][(resp = NoResp /\ resp'.op = "login") =>
        LET email == resp'.target
            known == email \in DOMAIN users
            banned == known /\ users[email] = "BANNED"
            matches == resp'.value = "password"
        IN  /\ ~known => resp'.result = InvalidCredentials
            /\ banned => resp'.result[1] = "403"
            /\ (known /\ ~banned /\ ~matches) =>
                   resp'.result = InvalidCredentials
            /\ (known /\ ~banned /\ matches) =>
                   /\ resp'.result[1] = "200"
                   /\ signAccess(email, users[email]) \in issued'
                   /\ signRefresh(email, users[email]) \in issued'
                   /\ \E d \in user_devices' \ user_devices :
                          d.user_id = email /\ ~d.is_revoked
            /\ resp'.result[1] \in {"401", "403"} =>
                   user_devices' = user_devices /\ issued' = issued
      ]_vars

\* A registered user who has logged in before is refused for a wrong password.
C19_Witness ==
    /\ resp.op = "login"
    /\ resp.result = InvalidCredentials
    /\ resp.target \in DOMAIN users
    /\ resp.value = "wrong password"
    /\ \E d \in user_devices : d.user_id = resp.target

\* C20: a successful POST /auth/logout by a client that logged in, sent with
\* what that login returned, marks as revoked a user_devices row of the
\* caller that its login created.
C20_LogoutRevokesOwnSession ==
    [][(/\ resp = NoResp
        /\ resp'.op = "logout"
        /\ resp'.result = LoggedOut
        /\ resp'.value = "refresh token"
        /\ \E d \in user_devices : d.user_id = resp'.caller /\ ~d.is_revoked)
       => \E d \in user_devices' : d.user_id = resp'.caller /\ d.is_revoked
      ]_vars

\* C21: once POST /auth/logout has answered a user's only session, a
\* POST /auth/refresh presenting that session's refresh token is answered
\* 401 and hands out no token.
C21_LogoutInvalidatesRefreshToken ==
    [][(/\ resp = NoResp
        /\ resp'.op = "logout"
        /\ resp'.result = LoggedOut
        /\ resp'.value = "refresh token"
        /\ Cardinality({d \in user_devices : d.user_id = resp'.caller}) = 1)
       => \A token \in issued :
              (token.userId = resp'.caller /\ token.expiresIn = "7d") =>
                  /\ (refresh(DB, token).result[1])' = "401"
                  /\ (refresh(DB, token).tokens)' = {}
      ]_vars

\* C22: POST /auth/refresh hands out a new access and refresh token only for
\* a token that verifies under the refresh secret, has not expired and whose
\* user exists and is not BANNED; every other request is answered 401 and
\* hands out nothing.
C22_RefreshOnlyForLiveUsers ==
    [][(resp = NoResp /\ resp'.op = "refresh") =>
        LET u == resp'.target
            good == /\ resp'.entity = <<RefreshSecret, 1>>
                    /\ u \in DOMAIN users
                    /\ users[u] # "BANNED"
        IN  IF good
            THEN /\ resp'.result[1] = "200"
                 /\ signAccess(u, users[u]) \in issued'
                 /\ signRefresh(u, users[u]) \in issued'
            ELSE /\ resp'.result[1] = "401"
                 /\ issued' = issued
                 /\ user_devices' = user_devices
      ]_vars

\* A user banned after the token was handed out is refused.
C22_Witness ==
    /\ resp.op = "refresh"
    /\ resp.entity = <<RefreshSecret, 1>>
    /\ resp.value = "7d"
    /\ resp.target \in DOMAIN users
    /\ users[resp.target] = "BANNED"
    /\ resp.result = InvalidToken

\* C23: isDeviceRevoked answers true for a pair with no row and for a revoked
\* row, and false for a row that exists and is not revoked.
C23_IsRevokedFailsClosed ==
    resp.op = "isDeviceRevoked" =>
        IF resp.value = "live" THEN resp.result = <<"false", "">>
        ELSE resp.result = <<"true", "">>

\* C24: revokeDevice never fails; on a row that is already revoked it leaves
\* the flag set, isDeviceRevoked is true after a first and after a second
\* call, and on a pair with no row it changes nothing and creates no row.
C24_RevokeIsIdempotent ==
    [][(resp = NoResp /\ resp'.op = "revokeDevice") =>
        LET rows == DeviceRows([user_devices |-> user_devices'], resp'.target,
                              resp'.entity) IN
        /\ resp'.result = Ok
        /\ resp'.value = "no row" => user_devices' = user_devices
        /\ resp'.value # "no row" =>
               /\ Cardinality(rows) = 1
               /\ \A d \in rows : d.is_revoked
               /\ isDeviceRevoked([user_devices |-> user_devices'],
                                  resp'.target, resp'.entity)
      ]_vars

\* The second of two calls has returned.
C24_Witness ==
    /\ resp.op = "revokeDevice"
    /\ resp.value = "revoked"
    /\ resp.result = Ok
    /\ RowState(DB, resp.target, resp.entity) = "revoked"

\* C25: there is at most one user_devices row per (user, device); saveDevice
\* on a pair that has a row replaces that row in place (flag cleared,
\* revoked_at NULL, origin, user agent and login time those of this login) and
\* adds a row only for a pair that had none.
C25_OneRowPerDevice ==
    [][(/\ \A u \in UserIds, d \in DeviceIds :
              Cardinality(DeviceRows(DB, u, d)) <= 1
        /\ resp = NoResp /\ resp'.op = "saveDevice") =>
        LET rows == DeviceRows([user_devices |-> user_devices'], resp'.target,
                              resp'.entity) IN
        /\ \A u \in UserIds, d \in DeviceIds :
               Cardinality(DeviceRows([user_devices |-> user_devices'], u, d)) <= 1
        /\ rows \subseteq
               {DeviceRow(resp'.target, resp'.entity, ip, ua, now) :
                    ip \in Origins, ua \in UserAgents, now \in Clock(DB)}
        /\ Cardinality(rows) = 1
        /\ Cardinality(user_devices') =
               Cardinality(user_devices)
                   + (IF resp'.value = "no row" THEN 1 ELSE 0)
      ]_vars

\* A login on a pair whose row was revoked has made the row live again.
C25_Witness ==
    /\ resp.op = "saveDevice"
    /\ resp.value = "revoked"
    /\ RowState(DB, resp.target, resp.entity) = "live"
    /\ Cardinality(user_devices) = 2

\* C26: revokeDevice(u, d) leaves every row other than (u, d) as it was.
C26_RevokeTouchesOneRow ==
    [][(resp = NoResp /\ resp'.op = "revokeDevice") =>
        /\ \A r \in user_devices :
               ~(r.user_id = resp'.target /\ r.device_id = resp'.entity)
                   => r \in user_devices'
        /\ Cardinality(user_devices') = Cardinality(user_devices)
      ]_vars

\* A device was revoked while the same user has another, live device.
C26_Witness ==
    /\ resp.op = "revokeDevice"
    /\ resp.value = "live"
    /\ \E r \in user_devices :
           /\ r.user_id = resp.target
           /\ r.device_id # resp.entity
           /\ ~r.is_revoked

\* C27: an updateTask that changes the status publishes exactly one message,
\* on the channel of the project's parent workspace, and the message reaches
\* the listeners of that channel and no other listener; an updateTask that
\* does not change the status publishes nothing; every listener holds a
\* role in the workspace of its channel (roles do not change here, so it
\* passed the Viewer check when it subscribed).
C27_StatusChangePublishedOnce ==
    [][(resp = NoResp /\ resp'.op = "updateTask") =>
        LET new == SubSeq(published', Len(published) + 1, Len(published'))
            old == {t \in tasks : t.id = resp'.entity}
            changed == /\ resp'.result = Ok
                       /\ resp'.value \in TaskStatuses
                       /\ \E t \in old : t.status # resp'.value
            channels == UNION {ParentOf(t.project_id) : t \in old}
        IN  /\ published' = published \o new
            /\ IF changed
               THEN /\ Len(new) = 1
                    /\ new[1].channel \in channels
                    /\ new[1].task = resp'.entity
                    /\ new[1].status = resp'.value
               ELSE new = <<>>
            /\ subscribers' =
                   {[s EXCEPT !.received =
                         IF s.channel \in channels THEN @ \o new ELSE @] :
                       s \in subscribers}
            /\ \A s \in subscribers' : WorkspaceRoleOf(s.user_id, s.channel) # {}
      ]_vars

\* The Contributor u2 moved the task from TODO to IN_PROGRESS: the listener
\* of the parent workspace has the message, the listener of the other
\* workspace has nothing.
C27_Witness ==
    /\ resp.op = "updateTask" /\ resp.result = Ok
    /\ resp.caller = "u2" /\ resp.value = "IN_PROGRESS"
    /\ Len(published) = 1
    /\ \E s \in subscribers : s.channel = <<"w", 1>> /\ s.received = published
    /\ \E s \in subscribers : s.channel = <<"w", 0>> /\ s.received = <<>>

\* C28: what a listener has received is exactly the messages published on
\* its channel after it attached, in publish order, each once.
C28_InOrderNoBacklog ==
    \A s \in subscribers :
        s.received =
            SelectSeq(SubSeq(published, s.since + 1, Len(published)),
                      LAMBDA m : m.channel = s.channel)

\* One listener attached before the first message and has both, in order;
\* another attached after the first message and has only the second.
C28_Witness ==
    /\ Len(published) = 2
    /\ \E s \in subscribers : s.since = 0 /\ s.received = published
    /\ \E s \in subscribers : s.since = 1 /\ s.received = <<published[2]>>

\* C29: the check of addWorkspaceMember and its INSERT are two steps: once
\* the check has passed, the INSERT is applied and answered ok whatever role
\* the caller holds by then, so a write committed by a caller who is no
\* longer an Owner is reachable.
C29_WriteFollowsStaleCheck ==
    [][(pending.op = "addWorkspaceMember" /\ pending' = NoPending) =>
        /\ resp'.op = "addWorkspaceMember"
        /\ resp'.caller = pending.caller
        /\ resp'.result = Ok
        /\ workspace_members' =
               IF WorkspaceRoleOf(pending.target, pending.id) # {}
               THEN workspace_members
               ELSE workspace_members \cup
                        {[workspace_id |-> pending.id, user_id |-> pending.target,
                          role |-> "Member"]}
      ]_vars

\* The caller's INSERT has been committed and the caller is no Owner of the
\* workspace any more.
C29_Witness ==
    /\ resp.op = "addWorkspaceMember"
    /\ resp.result = Ok
    /\ "Owner" \notin WorkspaceRoleOf(resp.caller, resp.entity)
    /\ WorkspaceRoleOf(resp.target, resp.entity) = {"Member"}

ShutdownInOrder ==
    /\ proc.pool = "closed" =>
           proc.phase \in {"closed", "failed"} /\ resp = NoResp
                                               /\ pending = NoPending
    /\ proc.apollo = "stopped" /\ proc.phase # "starting" => proc.pool = "closed"
    /\ proc.exit = "0" => proc.pool = "closed" /\ proc.apollo = "stopped"

\* Once it stopped listening the server takes no new request.
NoNewRequests ==
    proc.phase # "listening" /\ resp = NoResp => resp' = NoResp

\* C31 as stated: after a SIGTERM or SIGINT received at any point after the
\* start of the process, the process eventually exits, with 0 at the end of
\* the ordered sequence or with 1 from the timer.
C31_ExitsAfterAnySignal == proc.signal ~> proc.exit \in {"0", "1"}

\* C31: after a SIGTERM or SIGINT received once startServer has registered
\* the handlers, the process takes no new request, closes the pool only
\* after the HTTP server has closed with no request in flight, then stops
\* Apollo and exits 0; in every case it eventually exits, with 1 from the
\* timer when that sequence has not completed.  (A signal that arrives
\* before the handlers are registered ends the process at once.)
C31_ExitsAfterHandledSignal ==
    /\ []ShutdownInOrder
    /\ [][NoNewRequests]_vars
    /\ (proc.signal /\ proc.phase # "starting") ~> proc.exit \in {"0", "1"}

\* A signal came while a response was being sent, the response left, and
\* the whole sequence ran to exit 0.
C31_Witness ==
    /\ proc.signal
    /\ proc.exit = "0"
    /\ workspaces # {}

\* ---------------------------------------------------------------------
\* Workspaces are independent.

\* The workspace the request just answered was about: the workspace named,
\* or the parent, before or after the request, of the project named.
OperatedOn ==
    IF resp'.entity[1] = "w" THEN {resp'.entity}
    ELSE {WorkspaceOfProject(DB, resp'.entity),
          WorkspaceOfProject([projects |-> projects'], resp'.entity)}

\* C32: no operation on a workspace W1 (createWorkspace, add, remove or
\* update a member of W1, a project operation under W1) changes the result
\* of checkWorkspaceAccess(u, W2, m) for any other workspace W2, any user u
\* and any minimum role m; and checkWorkspaceAccess(u, W2, m) lets u in only
\* on a role u holds in W2 itself.
C32_WorkspacesIndependent ==
    /\ [][resp' # NoResp =>
            \A W2 \in (workspaces \cup workspaces') \ OperatedOn :
                \A u \in UserIds, m \in WorkspaceRoles :
                    checkWorkspaceAccess(DB', u, W2, m)
                        = checkWorkspaceAccess(DB, u, W2, m)]_vars
    /\ [](\A W2 \in workspaces : \A u \in UserIds, m \in WorkspaceRoles :
            checkWorkspaceAccess(DB, u, W2, m).hasAccess =>
                \E r \in WorkspaceRoleOf(u, W2) :
                    WorkspaceLevel(r) >= WorkspaceLevel(m))

\* u2, Viewer of the older workspace, has just been made Owner of the new
\* one and is still let into the older one as a Viewer only.
C32_Witness ==
    /\ resp # NoResp
    /\ resp.op = "updateWorkspaceMemberRole"
    /\ resp.result = Ok
    /\ resp.entity = <<"w", 1>>
    /\ WorkspaceRoleOf("u2", <<"w", 1>>) = {"Owner"}
    /\ checkWorkspaceAccess(DB, "u2", <<"w", 0>>, "Viewer").hasAccess
    /\ ~checkWorkspaceAccess(DB, "u2", <<"w", 0>>, "Member").hasAccess

\* ---------------------------------------------------------------------
\* What a workspace Member may do to the projects of the workspace.

\* C33: a user whose role in workspace W is Member is never refused, for
\* lack of a role, the editing or the deleting of a project of W.
C33_MemberEditsProjects ==
    (/\ resp # NoResp
     /\ resp.op \in {"updateProject", "deleteProject"}
     /\ \E w \in ParentOf(resp.entity) :
            WorkspaceRoleOf(resp.caller, w) = {"Member"})
        => resp.result \notin PermissionErrors

\* ---------------------------------------------------------------------
\* Access tokens: sign, then verify.

C35_ProjectMembersAreWorkspaceMembers ==
    \A m \in project_members :
        \A w \in ParentOf(m.project_id) :
            WorkspaceRoleOf(m.user_id, w) # {}

\* ---------------------------------------------------------------------
\* The last Owner of a workspace.

\* C36: after any sequence of createWorkspace, addWorkspaceMember,
\* removeWorkspaceMember and updateWorkspaceMemberRole, every existing
\* workspace has at least one member whose role is Owner.
C36_EveryWorkspaceHasAnOwner ==
    \A w \in workspaces :
        \E m \in workspace_members : m.workspace_id = w /\ m.role = "Owner"

\* ---------------------------------------------------------------------
\* unbanUser and the global status.

\* C37: unbanUser changes the status of BANNED users only: a user who is
\* ADMIN or ACTIVE before an unbanUser call has the same status after it.
C37_UnbanChangesBannedOnly ==
    [][(resp' # NoResp /\ resp'.op = "unbanUser") =>
          \A t \in UserIds :
              users[t] \in {"ADMIN", "ACTIVE"} => users'[t] = users[t]]_vars

\* ---------------------------------------------------------------------
\* What a wrong password learns.

\* C38: a login attempt with an incorrect password is answered 401 "Invalid
\* credentials" whether the email is unknown, or the account ACTIVE, ADMIN
\* or BANNED: 403 goes only to a caller who presented the correct password.
C38_WrongPasswordAlways401 ==
    (resp # NoResp /\ resp.op = "login" /\ resp.value = "wrong password")
        => resp.result = InvalidCredentials

\* ---------------------------------------------------------------------
\* One membership row per user, and the repeated add.

\* At most one row per (workspace, user) and per (project, user), each with
\* a role of its enum.
OneRowPerMember ==
    /\ \A u \in UserIds, w \in workspaces :
           Cardinality({m \in workspace_members :
                           m.workspace_id = w /\ m.user_id = u}) <= 1
    /\ \A u \in UserIds, p \in {x.id : x \in projects} :
           Cardinality({m \in project_members :
                           m.project_id = p /\ m.user_id = u}) <= 1
    /\ \A m \in workspace_members : m.role \in WorkspaceRoles
    /\ \A m \in project_members : m.role \in ProjectRoles

\* An add that names a user who is already a member writes nothing.
RepeatedAddWritesNothing ==
    /\ (/\ resp' # NoResp
        /\ resp'.op = "addWorkspaceMember"
        /\ WorkspaceRoleOf(resp'.target, resp'.entity) # {})
           => workspace_members' = workspace_members
    /\ (/\ resp' # NoResp
        /\ resp'.op = "addProjectMember"
        /\ ProjectRoleOf(resp'.target, resp'.entity) # {})
           => project_members' = project_members

\* addWorkspaceMember by an Owner on a user who is already a member succeeds.
RepeatedWorkspaceAddSucceeds ==
    (/\ resp' # NoResp
     /\ resp'.op = "addWorkspaceMember"
     /\ WorkspaceRoleOf(resp'.target, resp'.entity) # {}
     /\ checkWorkspaceOwnership(DB, resp'.caller, resp'.entity))
        => resp'.result = Ok

C40_FailedUpdateWritesNothing ==
    [][(resp' # NoResp /\ resp'.op = "updateTask" /\ resp'.result # Ok) =>
          /\ tasks' = tasks
          /\ task_assignments' = task_assignments]_vars

====
